---- MODULE Spec2Model ----
(***************************************************************************)
(* Cross-process span batching and context propagation of cursor-otel-hook. *)
(*                                                                         *)
(* Every hook invocation is a short-lived operating-system process.  The   *)
(* processes share nothing but files: one append-only span store per       *)
(* generation (batching_processor.py) and one context record per           *)
(* generation (context_manager.py); process_hook (hook_receiver.py) calls  *)
(* into both.  The specifications share the actions: SpecStore (span       *)
(* store), SpecCtx (context store, concurrent), SpecSeq and SpecRec        *)
(* (context store, one invocation after the other), SpecHook, SpecTrace,   *)
(* SpecGenId and SpecFail (whole invocations), SpecPayload (the batch of a *)
(* flush), SpecHex (the rendering of ids), SpecSweep (the retention        *)
(* sweeps) and SpecFlush (the span store under fair scheduling).           *)
(* The model follows the POSIX branch of                                   *)
(* lock_file/unlock_file (fcntl.flock): advisory locks that belong to the   *)
(* open file, so a file that is unlinked and created again is a different  *)
(* inode with a different lock.                                            *)
(***************************************************************************)
EXTENDS Integers, Sequences, FiniteSets, TLC

\* Number of process slots that may run at the same time.
NumProcs == 2
\* Number of invocations started in one behaviour.
MaxOps == 5

Procs == 1..NumProcs
OpIds == 1..MaxOps
\* Inode numbers are creation sequence numbers; 0 means "no file".

None == "None"
\* Generation and conversation ids of the hook events.
Gens == {"g1", "g2", ""}
Convs == {"c1"}

VARIABLES
    op,        \* op[p]: the function process p is running, "idle" when none
    pc,        \* pc[p]: position of p inside that function
    arg,       \* arg[p]: the arguments of the running call
    fd,        \* fd[p]: inode of the file p has open, 0 when none
    lk,        \* lk[p]: flock p holds on fd[p]: "un", "sh" or "ex"
    loc,       \* loc[p]: local variables of the running call
    result,    \* history: result[o] is the return value of invocation o
    exportRes, \* history: exportRes[o] is what the exporter answered to o
    unlinked,  \* history: invocations that removed a span store file
    spanPath,  \* spanPath[g]: inode linked at <storage_dir>/<g>.jsonl, 0 if absent
    spanIno,   \* spanIno[i]: lines of span-store inode i
    ctxPath,   \* ctxPath[g]: inode linked at <storage_dir>/<g>_context.json
    ctxIno,    \* ctxIno[i]: content of context inode i
    convMap,   \* convMap[c]: trace id stored for conversation c, 0 if none
    nextIno,   \* number of inodes created so far
    nOps,      \* number of invocations started so far
    calls,     \* history: calls[o] is the function and arguments of invocation o
    debug,     \* GenerationBatchingProcessor.debug
    exporterJson, \* the exporter has an export_otlp_json method
    max_age_hours, \* GenerationBatchingProcessor.max_age_hours
    fileAge,   \* fileAge[i]: seconds since inode i was last modified, for the
               \* files that earlier runs left; a file written now has age 0
    uploads,   \* history: batches handed to the exporter
    stopSeen,  \* history: generations for which a stop event was received
    appended   \* history: record ids whose _store_span call returned

procVars == <<op, pc, arg, fd, lk, loc>>
spanFs == <<spanPath, spanIno, nextIno>>
ctxFs == <<ctxPath, ctxIno, convMap>>
cfgVars == <<debug, exporterJson, max_age_hours, fileAge>>
histVars == <<result, exportRes, unlinked, uploads, appended, stopSeen>>
vars == <<op, pc, arg, fd, lk, loc, spanPath, spanIno, ctxPath, ctxIno, convMap,
          nextIno, nOps, calls, debug, exporterJson, max_age_hours, fileAge,
          result, exportRes, unlinked,
          uploads, appended, stopSeen>>

\* A Python dict with string keys and values, in insertion order: a
\* sequence of items with distinct keys.
Item(k, v) == [key |-> k, value |-> v]
Keys(d) == {d[i].key : i \in 1..Len(d)}

DictSetKeepsFirst(d, k, v) ==
    IF k \in Keys(d) THEN d ELSE Append(d, Item(k, v))

\* d[k] = v: the value of a key that is present is replaced in place, a
\* new key goes to the end.
DictSet(d, k, v) ==
    IF k \in Keys(d)
    THEN [d EXCEPT ![CHOOSE i \in 1..Len(d) : d[i].key = k] = Item(k, v)]
    ELSE Append(d, Item(k, v))

\* d.update(e)
RECURSIVE DictUpdate(_, _)
DictUpdate(d, e) ==
    IF e = <<>> THEN d
    ELSE DictUpdate(DictSet(d, Head(e).key, Head(e).value), Tail(e))

\* OTEL_SERVICE_NAME when the configuration does not set it.
DefaultServiceName == "cursor-agent"

\* Resource(attributes={SERVICE_NAME: config.service_name}).attributes
ResourceOf(service_name) == <<Item("service.name", service_name)>>

\* The "_resource" entry of a stored span: absent (in = FALSE), or the
\* dict attrs.
NoResource == [in |-> FALSE, attrs |-> <<>>]
Fragment(attrs) == [in |-> TRUE, attrs |-> attrs]

\* A span as it is stored and exported: rid identifies the record, gen is
\* its langsmith.metadata.generation_id attribute, ev the hook event, tid
\* and sid its trace and span id, psid its parent span id (0: none),
\* resource the "_resource" entry that only a stored span has.
MkSpan(rid, g, ev, tid, sid, psid) ==
    [rid |-> rid, gen |-> g, ev |-> ev, tid |-> tid, sid |-> sid, psid |-> psid,
     resource |-> NoResource]

\* _span_to_dict, last step: otlp_span["_resource"] =
\* dict(span.resource.attributes).
WithResource(span, attrs) == [span EXCEPT !.resource = Fragment(attrs)]

\* The placeholder where no span is meant.
NoSpan == MkSpan(0, None, None, 0, 0, 0)

\* A pointer to an open span as the context record holds it; NoPtr is
\* Python's None.
Ptr(tid, sid) == [trace_id |-> tid, span_id |-> sid]
NoPtr == Ptr(0, 0)

\* A return value: a status, a parent pointer or a trace id.
Res(st) == [st |-> st, ptr |-> NoPtr, tid |-> 0]

\* Arguments of a call (_store_span is given its span by the span's
\* fields) and, for a call made by process_hook, the frame of process_hook:
\* top names the caller, next where it goes on, ret what the last call
\* returned, par the parent that was resolved.  service_name is
\* config.service_name of the process: the resource of its tracer provider
\* and the argument of its flush_generation.
NoArg == [id |-> 0, gen |-> None, ev |-> None, conv |-> None,
          tid |-> 0, sid |-> 0, psid |-> 0, top |-> None, next |-> None,
          ret |-> Res("none"), par |-> NoPtr,
          service_name |-> DefaultServiceName]

\* The span that process_hook created, or that _store_span is given.
SpanOf(a) == MkSpan(a.id, a.gen, a.ev, a.tid, a.sid, a.psid)

\* span_data = self._span_to_dict(span), the object _store_span writes.
SpanData(a) == WithResource(SpanOf(a), ResourceOf(a.service_name))

(***************************************************************************)
(* The context record of a generation: the JSON object save_span_context   *)
(* dumps.  A key that is missing reads as None (context.get).  trunc marks *)
(* a file of zero bytes, as open(..., "w") leaves it until the dump:       *)
(* json.load raises on it.                                                 *)
(***************************************************************************)
EmptyContext ==
    [current_session_span |-> NoPtr, current_subagent_span |-> NoPtr,
     current_tool_span |-> NoPtr, session_trace_id |-> 0, trunc |-> FALSE]
Truncated == [EmptyContext EXCEPT !.trunc = TRUE]

\* Local variables of flush_generation: spans_data and resource_attrs;
\* snap, ino0 and ino record the store at the call and the inode the call
\* opened.  The local variable of save_span_context is the record it
\* read, context.
NoLoc == [spans_data |-> <<>>, resource_attrs |-> <<>>, snap |-> {},
          ino0 |-> 0, ino |-> 0]
SaveLoc(context) == [context |-> context]

(***************************************************************************)
(* Lines of a span store.  _store_span writes json.dumps(span_data) + "\n" *)
(* through a buffered text file; the text reaches the file in one or more  *)
(* write(2) calls, modelled as two chunks.  A line is                      *)
(*   "ok"   a complete record followed by its newline,                     *)
(*   "half" the first chunk of a record, not yet terminated,               *)
(*   "bad"  text that json.loads rejects.                                  *)
(***************************************************************************)
OkLine(s) == [kind |-> "ok", span |-> s, nl |-> TRUE]
HalfLine(s) == [kind |-> "half", span |-> s, nl |-> FALSE]
BadLine(nl) == [kind |-> "bad", span |-> NoSpan, nl |-> nl]

TailOpen(lines) == Len(lines) > 0 /\ ~lines[Len(lines)].nl

\* First chunk of record s arrives at the end of the file (O_APPEND).
WriteChunk1(lines, s) ==
    IF TailOpen(lines)
    THEN [lines EXCEPT ![Len(lines)] = BadLine(FALSE)]
    ELSE Append(lines, HalfLine(s))

\* Second chunk of record s, ending in the newline.
WriteChunk2(lines, s) ==
    IF TailOpen(lines)
    THEN IF lines[Len(lines)] = HalfLine(s)
         THEN [lines EXCEPT ![Len(lines)] = OkLine(s)]
         ELSE [lines EXCEPT ![Len(lines)] = BadLine(TRUE)]
    ELSE Append(lines, BadLine(TRUE))

CanLockNoWait(p, i, mode) == TRUE

\* flock: an exclusive lock excludes every other lock on the same inode,
\* a shared lock excludes exclusive ones.
CanLock(p, i, mode) ==
    \A q \in Procs \ {p} :
        (fd[q] = i /\ lk[q] # "un") => (mode = "sh" /\ lk[q] = "sh")

(***************************************************************************)
(* Process bookkeeping.                                                    *)
(***************************************************************************)
Idle(p) == op[p] = "idle"

\* Process p starts invocation number nOps + 1 of function f.  Process
\* slots are interchangeable: a new invocation takes the lowest free one.
Begin(p, f, at, a, l) ==
    /\ Idle(p)
    /\ \A q \in Procs : q < p => ~Idle(q)
    /\ nOps < MaxOps
    /\ nOps' = nOps + 1
    /\ calls' = Append(calls, [f |-> f, gen |-> a.gen, ev |-> a.ev,
                               conv |-> a.conv, tid |-> a.tid, sid |-> a.sid])
    /\ op' = [op EXCEPT ![p] = f]
    /\ pc' = [pc EXCEPT ![p] = at]
    /\ arg' = [arg EXCEPT ![p] = a]
    /\ loc' = [loc EXCEPT ![p] = l]
    /\ UNCHANGED <<fd, lk>>

\* Process p moves to position at; its locals become l.
Goto(p, at, l) ==
    /\ pc' = [pc EXCEPT ![p] = at]
    /\ loc' = [loc EXCEPT ![p] = l]
    /\ UNCHANGED <<op, arg>>

\* The running call of p returns r; open files are closed and their locks
\* released ("with open(...)" and "finally: unlock_file(f)").  A call made
\* by process_hook returns into process_hook.
Return(p, r) ==
    /\ loc' = [loc EXCEPT ![p] = NoLoc]
    /\ fd' = [fd EXCEPT ![p] = 0]
    /\ lk' = [lk EXCEPT ![p] = "un"]
    /\ IF arg[p].top = "process_hook"
       THEN /\ op' = [op EXCEPT ![p] = "process_hook"]
            /\ pc' = [pc EXCEPT ![p] = arg[p].next]
            /\ arg' = [arg EXCEPT ![p].ret = r]
            /\ UNCHANGED result
       ELSE /\ op' = [op EXCEPT ![p] = "idle"]
            /\ pc' = [pc EXCEPT ![p] = "done"]
            /\ arg' = [arg EXCEPT ![p] = NoArg]
            /\ result' = [result EXCEPT ![arg[p].id] = r]

StoreRids(g) ==
    IF spanPath[g] = 0 THEN {}
    ELSE {spanIno[spanPath[g]][k].span.rid :
            k \in {j \in 1..Len(spanIno[spanPath[g]]) :
                     spanIno[spanPath[g]][j].kind = "ok"}}

(***************************************************************************)
(* GenerationBatchingProcessor._store_span                                 *)
(***************************************************************************)
StartStoreSpan(p, g) ==
    /\ Begin(p, "store_span", "a_open",
             [NoArg EXCEPT !.id = nOps + 1, !.gen = g, !.ev = "span",
                           !.sid = nOps + 1],
             NoLoc)
    /\ UNCHANGED <<spanFs, cfgVars, ctxFs, histVars>>

\* open(span_file, "a"): creates the file when it is missing.
StoreSpanOpen(p) ==
    /\ op[p] = "store_span" /\ pc[p] = "a_open"
    /\ LET g == arg[p].gen IN
       IF spanPath[g] = 0
       THEN /\ nextIno' = nextIno + 1
            /\ spanPath' = [spanPath EXCEPT ![g] = nextIno + 1]
            /\ spanIno' = spanIno @@ ((nextIno + 1) :> <<>>)
            /\ fd' = [fd EXCEPT ![p] = nextIno + 1]
       ELSE /\ fd' = [fd EXCEPT ![p] = spanPath[g]]
            /\ UNCHANGED spanFs
    /\ pc' = [pc EXCEPT ![p] = "a_lock"]
    /\ UNCHANGED <<op, arg, lk, loc, nOps, calls, cfgVars, ctxFs, histVars>>

\* lock_file(f, exclusive=True): blocks until the lock is free.
StoreSpanLock(p) ==
    /\ op[p] = "store_span" /\ pc[p] = "a_lock"
    /\ CanLock(p, fd[p], "ex")
    /\ lk' = [lk EXCEPT ![p] = "ex"]
    /\ pc' = [pc EXCEPT ![p] = "a_write"]
    /\ UNCHANGED <<op, arg, fd, loc, spanFs, nOps, calls, cfgVars, ctxFs, histVars>>

\* f.write(...): the first part of the line reaches the file.
StoreSpanWrite(p) ==
    /\ op[p] = "store_span" /\ pc[p] = "a_write"
    /\ spanIno' = [spanIno EXCEPT ![fd[p]] = WriteChunk1(@, SpanData(arg[p]))]
    /\ pc' = [pc EXCEPT ![p] = "a_flush"]
    /\ UNCHANGED <<op, arg, fd, lk, loc, spanPath, nextIno, nOps, calls, cfgVars, ctxFs, histVars>>

\* f.flush(): the rest of the line and its newline reach the file; then
\* unlock_file(f), the file is closed and _store_span returns.
StoreSpanFlush(p) ==
    /\ op[p] = "store_span" /\ pc[p] = "a_flush"
    /\ spanIno' = [spanIno EXCEPT ![fd[p]] = WriteChunk2(@, SpanData(arg[p]))]
    /\ appended' = appended \cup {arg[p].id}
    /\ Return(p, Res("ok"))
    /\ UNCHANGED <<spanPath, nextIno, nOps, calls, cfgVars, ctxFs, stopSeen, exportRes, unlinked, uploads>>

\* The process is killed between the two parts of its write: the kernel
\* closes its files and drops its locks, the partial line stays.
KillMidWrite(p) ==
    /\ op[p] = "store_span" /\ pc[p] = "a_flush"
    /\ Return(p, Res("killed"))
    /\ UNCHANGED <<spanFs, nOps, calls, cfgVars, ctxFs, stopSeen, exportRes, unlinked, uploads, appended>>

(***************************************************************************)
(* GenerationBatchingProcessor.flush_generation                            *)
(***************************************************************************)
\* flush_generation(generation_id, service_name)
StartFlushAs(p, g, service_name) ==
    /\ Begin(p, "flush_generation", "f_exists",
             [NoArg EXCEPT !.id = nOps + 1, !.gen = g,
                           !.service_name = service_name],
             [NoLoc EXCEPT !.snap = StoreRids(g), !.ino0 = spanPath[g]])
    /\ UNCHANGED <<spanFs, cfgVars, ctxFs, histVars>>

StartFlush(p, g) == StartFlushAs(p, g, DefaultServiceName)

\* if not span_file.exists(): return True
FlushExists(p) ==
    /\ op[p] = "flush_generation" /\ pc[p] = "f_exists"
    /\ IF spanPath[arg[p].gen] = 0
       THEN Return(p, Res("True"))
       ELSE Goto(p, "f_open", loc[p]) /\ UNCHANGED <<fd, lk, result>>
    /\ UNCHANGED <<spanFs, nOps, calls, cfgVars, ctxFs, stopSeen, exportRes, unlinked, uploads, appended>>

\* open(span_file, "r"): FileNotFoundError is caught by the outer except.
FlushOpen(p) ==
    /\ op[p] = "flush_generation" /\ pc[p] = "f_open"
    /\ IF spanPath[arg[p].gen] = 0
       THEN Return(p, Res("False"))
       ELSE /\ Goto(p, "f_lock", [loc[p] EXCEPT !.ino = spanPath[arg[p].gen]])
            /\ fd' = [fd EXCEPT ![p] = spanPath[arg[p].gen]]
            /\ UNCHANGED <<lk, result>>
    /\ UNCHANGED <<spanFs, nOps, calls, cfgVars, ctxFs, stopSeen, exportRes, unlinked, uploads, appended>>

\* lock_file(f, exclusive=False)
FlushLock(p) ==
    /\ op[p] = "flush_generation" /\ pc[p] = "f_lock"
    /\ CanLock(p, fd[p], "sh")
    /\ lk' = [lk EXCEPT ![p] = "sh"]
    /\ pc' = [pc EXCEPT ![p] = "f_read"]
    /\ UNCHANGED <<op, arg, fd, loc, spanFs, nOps, calls, cfgVars, ctxFs, histVars>>

\* A span_data that keeps its "_resource".
PopResourceKeeps(span_data) == span_data

\* span_data.pop("_resource")
PopResource(span_data) == [span_data EXCEPT !.resource = NoResource]

\* The spans of the lines, in file order, with "_resource" popped.
RECURSIVE ParseLines(_)
ParseLinesDropFirst(lines) ==
    IF lines = <<>> THEN <<>> ELSE ParseLines(Tail(lines))

ParseLines(lines) ==
    IF lines = <<>> THEN <<>>
    ELSE <<PopResource(Head(lines).span)>> \o ParseLines(Tail(lines))

\* resource_attrs after the loop over the lines: it starts as {} and is
\* updated with the "_resource" of every line that has one, in file order.
RECURSIVE MergeResources(_, _)
MergeResources(resource_attrs, lines) ==
    IF lines = <<>> THEN resource_attrs
    ELSE MergeResources(
             IF Head(lines).span.resource.in
             THEN DictUpdate(resource_attrs, Head(lines).span.resource.attrs)
             ELSE resource_attrs,
             Tail(lines))

\* The attribute list that _build_otlp_payload appends to: every key of
\* resource_attrs but "service.name", as a string value.
RECURSIVE OtherAttributes(_)
OtherAttributesAll(resource_attrs) ==
    IF resource_attrs = <<>> THEN <<>>
    ELSE <<[key |-> Head(resource_attrs).key,
            value |-> [stringValue |-> Head(resource_attrs).value]]>>
         \o OtherAttributes(Tail(resource_attrs))

OtherAttributes(resource_attrs) ==
    IF resource_attrs = <<>> THEN <<>>
    ELSE (IF Head(resource_attrs).key # "service.name"
          THEN <<[key |-> Head(resource_attrs).key,
                  value |-> [stringValue |-> Head(resource_attrs).value]]>>
          ELSE <<>>)
         \o OtherAttributes(Tail(resource_attrs))

\* The payload of one resource block and one scope that _build_otlp_payload
\* and JSONSpanExporter._encode_spans return.
OtlpPayload(resource_attributes, spans) ==
    [resourceSpans |->
        <<[resource |-> [attributes |-> resource_attributes],
           scopeSpans |-> <<[scope |-> [name |-> "cursor_otel_hook"],
                             spans |-> spans]>>]>>]

BuildOtlpPayload(spans, service_name, resource_attrs) ==
    OtlpPayload(<<[key |-> "service.name",
                   value |-> [stringValue |-> service_name]]>>
                    \o OtherAttributes(resource_attrs),
                spans)

\* JSONSpanExporter._encode_spans for a non-empty list of spans.
EncodeSpans(spans, service_name) ==
    OtlpPayload(<<[key |-> "service.name",
                   value |-> [stringValue |-> service_name]]>>,
                spans)

AllParse(lines) == \A k \in 1..Len(lines) : lines[k].kind = "ok"

\* for line in f: json.loads(line) ...; a line that does not parse raises,
\* "finally" unlocks and the outer except returns False.  Otherwise the
\* lock is released and the file closed at the end of the with block.
\* With records read, span_file.stat() follows at once: it raises, and the
\* flush returns False, when the path is gone.  (What another process
\* does between the read and the stat does not change what was read, so
\* the two are one step.)
FlushRead(p) ==
    /\ op[p] = "flush_generation" /\ pc[p] = "f_read"
    /\ LET lines == spanIno[fd[p]] IN
       IF AllParse(lines) /\ (lines = <<>> \/ spanPath[arg[p].gen] # 0)
       THEN /\ Goto(p, IF lines = <<>> THEN "f_unlink_empty" ELSE "f_export",
                    [loc[p] EXCEPT !.spans_data = ParseLines(lines),
                                   !.resource_attrs =
                                       MergeResources(<<>>, lines)])
            /\ lk' = [lk EXCEPT ![p] = "un"]
            /\ fd' = [fd EXCEPT ![p] = 0]
            /\ UNCHANGED result
       ELSE Return(p, Res("False"))
    /\ UNCHANGED <<spanFs, nOps, calls, cfgVars, ctxFs, stopSeen, exportRes, unlinked, uploads, appended>>

\* span_file.unlink(): FileNotFoundError when the path is gone.
Unlink(p, after) ==
    LET g == arg[p].gen IN
    IF spanPath[g] = 0
    THEN /\ Return(p, Res("False"))
         /\ UNCHANGED <<spanFs, unlinked>>
    ELSE /\ spanPath' = [spanPath EXCEPT ![g] = 0]
         /\ unlinked' = unlinked \cup {arg[p].id}
         /\ Return(p, Res(after))
         /\ UNCHANGED <<spanIno, nextIno>>

\* if not spans_data: span_file.unlink(); return True
FlushUnlinkEmpty(p) ==
    /\ op[p] = "flush_generation" /\ pc[p] = "f_unlink_empty"
    /\ Unlink(p, "True")
    /\ UNCHANGED <<nOps, calls, cfgVars, ctxFs, stopSeen, exportRes, uploads, appended>>

\* _export_otlp_payload: FAILURE without a call when the exporter has no
\* export_otlp_json, else whatever the exporter answers.
ExportOutcomes == IF exporterJson THEN {"SUCCESS", "FAILURE"} ELSE {"FAILURE"}

AfterExportAlwaysUnlink(r) == "f_unlink"

\* Where flush_generation goes with the exporter's answer r.
AfterExport(r) ==
    IF r = "SUCCESS"
    THEN IF debug THEN "return_true" ELSE "f_unlink"
    ELSE "return_false"

\* A flush with a retry loop: it asks the exporter again until the answer
\* is SUCCESS.
FlushExportRetries(p) ==
    /\ op[p] = "flush_generation" /\ pc[p] = "f_export"
    /\ \E r \in ExportOutcomes :
        /\ exportRes' = [exportRes EXCEPT ![arg[p].id] = r]
        /\ uploads' = uploads \cup {[op |-> arg[p].id, gen |-> arg[p].gen,
                                     spans |-> loc[p].spans_data,
                                     payload |-> BuildOtlpPayload(
                                         loc[p].spans_data,
                                         arg[p].service_name,
                                         loc[p].resource_attrs)]}
        /\ Goto(p, IF r = "SUCCESS" THEN "f_unlink" ELSE "f_export", loc[p])
        /\ UNCHANGED <<fd, lk, result>>
    /\ UNCHANGED <<spanFs, nOps, calls, cfgVars, ctxFs, stopSeen, unlinked, appended>>

FlushExport(p) ==
    /\ op[p] = "flush_generation" /\ pc[p] = "f_export"
    /\ \E r \in ExportOutcomes :
        /\ exportRes' = [exportRes EXCEPT ![arg[p].id] = r]
        /\ uploads' = IF exporterJson
                      THEN uploads \cup {[op |-> arg[p].id, gen |-> arg[p].gen,
                                          spans |-> loc[p].spans_data,
                                          payload |-> BuildOtlpPayload(
                                              loc[p].spans_data,
                                              arg[p].service_name,
                                              loc[p].resource_attrs)]}
                      ELSE uploads
        /\ IF AfterExport(r) = "f_unlink"
           THEN Goto(p, "f_unlink", loc[p]) /\ UNCHANGED <<fd, lk, result>>
           ELSE Return(p, Res(IF AfterExport(r) = "return_true" THEN "True" ELSE "False"))
    /\ UNCHANGED <<spanFs, nOps, calls, cfgVars, ctxFs, stopSeen, unlinked, appended>>

\* span_file.unlink(); return True
FlushUnlink(p) ==
    /\ op[p] = "flush_generation" /\ pc[p] = "f_unlink"
    /\ Unlink(p, "True")
    /\ UNCHANGED <<nOps, calls, cfgVars, ctxFs, stopSeen, exportRes, uploads, appended>>

(***************************************************************************)
(* GenerationContextManager (context_manager.py).  The span_info that      *)
(* save_span_context stores also carries hook_event and timestamp; no code *)
(* reads them back, so a stored pointer is its trace_id and span_id.       *)
(***************************************************************************)
\* generate_session_trace_id: the first 128 bits of SHA-256, a different
\* trace id for each conversation id of the model.
generate_session_trace_id(conversation_id) ==
    IF conversation_id = "c1" THEN 1 ELSE 2

RootEvents == {"sessionStart"}
ToolDoneEvents == {"postToolUse", "postToolUseFailure", "afterShellExecution",
                   "afterMCPExecution", "afterFileEdit"}
ToolStartEvents == {"preToolUse", "beforeShellExecution", "beforeMCPExecution",
                    "beforeReadFile"}

\* A _determine_parent without the test for root events.
DetermineParentNoRoot(context, hook_event) ==
    IF context.current_subagent_span # NoPtr THEN context.current_subagent_span
    ELSE context.current_session_span

\* A _determine_parent that never looks at the tool span.
DetermineParentNoTool(context, hook_event) ==
    IF hook_event \in RootEvents THEN NoPtr
    ELSE IF hook_event = "subagentStart" /\ context.current_session_span # NoPtr
         THEN context.current_session_span
    ELSE IF context.current_subagent_span # NoPtr
         THEN context.current_subagent_span
    ELSE context.current_session_span

\* A _determine_parent that prefers the tool span for every event.
DetermineParentToolFirst(context, hook_event) ==
    IF hook_event \in RootEvents THEN NoPtr
    ELSE IF context.current_tool_span # NoPtr THEN context.current_tool_span
    ELSE IF hook_event = "subagentStart" /\ context.current_session_span # NoPtr
         THEN context.current_session_span
    ELSE IF context.current_subagent_span # NoPtr
         THEN context.current_subagent_span
    ELSE context.current_session_span

\* A _determine_parent that knows the session span only.
DetermineParentSessionOnly(context, hook_event) ==
    IF hook_event \in RootEvents THEN NoPtr ELSE context.current_session_span

\* _determine_parent: each "if" that finds its pointer missing falls
\* through to the tests below it.
DetermineParent(context, hook_event) ==
    LET current_session == context.current_session_span
        current_subagent == context.current_subagent_span
        current_tool == context.current_tool_span
    IN  IF hook_event \in RootEvents THEN NoPtr
        ELSE IF hook_event \in ToolDoneEvents /\ current_tool # NoPtr
             THEN current_tool
        ELSE IF hook_event = "subagentStart" /\ current_session # NoPtr
             THEN current_session
        ELSE IF hook_event \in ToolStartEvents /\ current_subagent # NoPtr
             THEN current_subagent
        ELSE IF hook_event \in ToolStartEvents /\ current_session # NoPtr
             THEN current_session
        ELSE IF current_subagent # NoPtr THEN current_subagent
        ELSE IF current_session # NoPtr THEN current_session
        ELSE NoPtr

\* A sessionStart update that does not record the trace id.
ApplySaveNoTraceId(context, hook_event, trace_id, span_id) ==
    IF hook_event = "sessionStart"
    THEN [context EXCEPT !.current_session_span = Ptr(trace_id, span_id),
                         !.current_subagent_span = NoPtr,
                         !.current_tool_span = NoPtr]
    ELSE context

\* An update that has no branch for sessionEnd.
ApplySaveNoSessionEnd(context, hook_event, trace_id, span_id) ==
    IF hook_event \in ToolStartEvents
    THEN [context EXCEPT !.current_tool_span = Ptr(trace_id, span_id)]
    ELSE context

\* A subagentStart update that keeps the tool pointer.
ApplySaveKeepsTool(context, hook_event, trace_id, span_id) ==
    IF hook_event = "subagentStart"
    THEN [context EXCEPT !.current_subagent_span = Ptr(trace_id, span_id)]
    ELSE IF hook_event = "subagentStop"
    THEN [context EXCEPT !.current_subagent_span = NoPtr]
    ELSE context

\* A tool completion update that also clears the subagent pointer.
ApplySaveToolDoneClearsSubagent(context, hook_event, trace_id, span_id) ==
    IF hook_event \in ToolStartEvents
    THEN [context EXCEPT !.current_tool_span = Ptr(trace_id, span_id)]
    ELSE IF hook_event \in ToolDoneEvents
    THEN [context EXCEPT !.current_subagent_span = NoPtr,
                         !.current_tool_span = NoPtr]
    ELSE context

\* An update whose last branch clears the tool pointer.
ApplySaveOtherClearsTool(context, hook_event, trace_id, span_id) ==
    IF hook_event \in ToolStartEvents
    THEN [context EXCEPT !.current_tool_span = Ptr(trace_id, span_id)]
    ELSE [context EXCEPT !.current_tool_span = NoPtr]

\* The branch of save_span_context that updates the record it has read.
ApplySave(context, hook_event, trace_id, span_id) ==
    LET span_info == Ptr(trace_id, span_id) IN
    IF hook_event = "sessionStart"
    THEN [context EXCEPT !.current_session_span = span_info,
                         !.current_subagent_span = NoPtr,
                         !.current_tool_span = NoPtr,
                         !.session_trace_id = trace_id]
    ELSE IF hook_event = "sessionEnd" THEN EmptyContext
    ELSE IF hook_event = "subagentStart"
    THEN [context EXCEPT !.current_subagent_span = span_info,
                         !.current_tool_span = NoPtr]
    ELSE IF hook_event = "subagentStop"
    THEN [context EXCEPT !.current_subagent_span = NoPtr,
                         !.current_tool_span = NoPtr]
    ELSE IF hook_event \in ToolStartEvents
    THEN [context EXCEPT !.current_tool_span = span_info]
    ELSE IF hook_event \in ToolDoneEvents
    THEN [context EXCEPT !.current_tool_span = NoPtr]
    ELSE context

ResPtr(parent) ==
    [st |-> IF parent = NoPtr THEN "None" ELSE "parent", ptr |-> parent, tid |-> 0]
ResTid(t) ==
    [st |-> IF t = 0 THEN "None" ELSE "trace_id", ptr |-> NoPtr, tid |-> t]

\* Frame of a step that touches neither a file system nor the history.
CtxStepFrame == UNCHANGED <<spanFs, nOps, calls, cfgVars, ctxFs, histVars>>
\* Frame of a step that returns without touching a file.
CtxReturnFrame ==
    UNCHANGED <<spanFs, nOps, calls, cfgVars, ctxFs, exportRes, unlinked,
                uploads, appended, stopSeen>>

\* open(context_file, "r") by process p at position at of function f: the
\* file it finds, or a FileNotFoundError that takes p to position missing.
CtxOpenRead(p, f, at, next, missing) ==
    /\ op[p] = f /\ pc[p] = at
    /\ IF ctxPath[arg[p].gen] = 0
       THEN /\ pc' = [pc EXCEPT ![p] = missing]
            /\ UNCHANGED fd
       ELSE /\ pc' = [pc EXCEPT ![p] = next]
            /\ fd' = [fd EXCEPT ![p] = ctxPath[arg[p].gen]]
    /\ UNCHANGED <<op, arg, lk, loc>>
    /\ CtxStepFrame

\* lock_file(f, exclusive=False).
CtxLockShared(p, f, at, next) ==
    /\ op[p] = f /\ pc[p] = at
    /\ CanLock(p, fd[p], "sh")
    /\ lk' = [lk EXCEPT ![p] = "sh"]
    /\ pc' = [pc EXCEPT ![p] = next]
    /\ UNCHANGED <<op, arg, fd, loc>>
    /\ CtxStepFrame

(***************************************************************************)
(* GenerationContextManager.save_span_context                              *)
(***************************************************************************)
StartSave(p, g, ev, tid, sid) ==
    /\ Begin(p, "save_span_context", "s_exists",
             [NoArg EXCEPT !.id = nOps + 1, !.gen = g, !.ev = ev,
                           !.tid = tid, !.sid = sid],
             NoLoc)
    /\ UNCHANGED <<spanFs, cfgVars, ctxFs, histVars>>

\* context = {}; if context_file.exists():
SaveExists(p) ==
    /\ op[p] = "save_span_context" /\ pc[p] = "s_exists"
    /\ Goto(p, IF ctxPath[arg[p].gen] = 0 THEN "s_openw" ELSE "s_open",
            SaveLoc(EmptyContext))
    /\ UNCHANGED <<fd, lk>>
    /\ CtxStepFrame

\* A file that vanished since exists() raises; the except keeps context = {}.
SaveOpenRead(p) == CtxOpenRead(p, "save_span_context", "s_open", "s_lock", "s_openw")

SaveLockShared(p) == CtxLockShared(p, "save_span_context", "s_lock", "s_read")

\* context = json.load(f), the shared lock is released and the file closed.
\* json.load raises on a file of zero bytes; the except keeps context = {}.
SaveRead(p) ==
    /\ op[p] = "save_span_context" /\ pc[p] = "s_read"
    /\ Goto(p, "s_openw",
            SaveLoc(IF ctxIno[fd[p]].trunc THEN EmptyContext ELSE ctxIno[fd[p]]))
    /\ fd' = [fd EXCEPT ![p] = 0]
    /\ lk' = [lk EXCEPT ![p] = "un"]
    /\ CtxStepFrame

\* The record is updated in memory, then open(context_file, "w") creates
\* the file or truncates it to zero bytes; no lock is held at this point.
SaveOpenWrite(p) ==
    /\ op[p] = "save_span_context" /\ pc[p] = "s_openw"
    /\ Goto(p, "s_lockw",
            SaveLoc(ApplySave(loc[p].context, arg[p].ev, arg[p].tid, arg[p].sid)))
    /\ LET g == arg[p].gen IN
       IF ctxPath[g] = 0
       THEN /\ nextIno' = nextIno + 1
            /\ ctxPath' = [ctxPath EXCEPT ![g] = nextIno + 1]
            /\ ctxIno' = ctxIno @@ ((nextIno + 1) :> Truncated)
            /\ fd' = [fd EXCEPT ![p] = nextIno + 1]
       ELSE /\ ctxIno' = [ctxIno EXCEPT ![ctxPath[g]] = Truncated]
            /\ fd' = [fd EXCEPT ![p] = ctxPath[g]]
            /\ UNCHANGED <<nextIno, ctxPath>>
    /\ UNCHANGED <<lk, spanPath, spanIno, convMap, nOps, calls, cfgVars, histVars>>

\* lock_file(f, exclusive=True).
SaveLockExclusive(p) ==
    /\ op[p] = "save_span_context" /\ pc[p] = "s_lockw"
    /\ CanLock(p, fd[p], "ex")
    /\ lk' = [lk EXCEPT ![p] = "ex"]
    /\ pc' = [pc EXCEPT ![p] = "s_dump"]
    /\ UNCHANGED <<op, arg, fd, loc>>
    /\ CtxStepFrame

\* json.dump(context, f); f.flush(); unlock_file(f); the file is closed.
SaveDump(p) ==
    /\ op[p] = "save_span_context" /\ pc[p] = "s_dump"
    /\ ctxIno' = [ctxIno EXCEPT ![fd[p]] = loc[p].context]
    /\ Return(p, Res("None"))
    /\ UNCHANGED <<spanFs, ctxPath, convMap, nOps, calls, cfgVars, exportRes,
                   unlinked, uploads, appended, stopSeen>>

(***************************************************************************)
(* GenerationContextManager.get_parent_context                             *)
(***************************************************************************)
StartGetParent(p, g, ev) ==
    /\ Begin(p, "get_parent_context", "g_exists",
             [NoArg EXCEPT !.id = nOps + 1, !.gen = g, !.ev = ev], NoLoc)
    /\ UNCHANGED <<spanFs, cfgVars, ctxFs, histVars>>

\* if not context_file.exists(): return None
GetParentExists(p) ==
    /\ op[p] = "get_parent_context" /\ pc[p] = "g_exists"
    /\ IF ctxPath[arg[p].gen] = 0
       THEN Return(p, Res("None")) /\ CtxReturnFrame
       ELSE Goto(p, "g_open", loc[p]) /\ UNCHANGED <<fd, lk>> /\ CtxStepFrame

GetParentOpen(p) ==
    CtxOpenRead(p, "get_parent_context", "g_open", "g_lock", "g_nofile")

GetParentLock(p) == CtxLockShared(p, "get_parent_context", "g_lock", "g_read")

\* context = json.load(f) under the shared lock, then _determine_parent.
\* A file of zero bytes makes json.load raise.
GetParentRead(p) ==
    /\ op[p] = "get_parent_context" /\ pc[p] = "g_read"
    /\ IF ctxIno[fd[p]].trunc
       THEN /\ Goto(p, "g_badjson", loc[p])
            /\ fd' = [fd EXCEPT ![p] = 0]
            /\ lk' = [lk EXCEPT ![p] = "un"]
            /\ CtxStepFrame
       ELSE /\ Return(p, ResPtr(DetermineParent(ctxIno[fd[p]], arg[p].ev)))
            /\ CtxReturnFrame

\* An except block that lets the error escape to the caller.
GetParentErrorRaises(p) ==
    /\ op[p] = "get_parent_context" /\ pc[p] \in {"g_nofile", "g_badjson"}
    /\ Return(p, Res("raised"))
    /\ CtxReturnFrame

\* except Exception: logger.error("Error reading context file"); return None
GetParentError(p) ==
    /\ op[p] = "get_parent_context" /\ pc[p] \in {"g_nofile", "g_badjson"}
    /\ Return(p, Res("None"))
    /\ CtxReturnFrame

(***************************************************************************)
(* GenerationContextManager.get_session_trace_id                           *)
(***************************************************************************)
StartGetSessionTraceId(p, g) ==
    /\ Begin(p, "get_session_trace_id", "t_exists",
             [NoArg EXCEPT !.id = nOps + 1, !.gen = g], NoLoc)
    /\ UNCHANGED <<spanFs, cfgVars, ctxFs, histVars>>

GetSessionTraceIdExists(p) ==
    /\ op[p] = "get_session_trace_id" /\ pc[p] = "t_exists"
    /\ IF ctxPath[arg[p].gen] = 0
       THEN Return(p, Res("None")) /\ CtxReturnFrame
       ELSE Goto(p, "t_open", loc[p]) /\ UNCHANGED <<fd, lk>> /\ CtxStepFrame

\* open(context_file, "r"); a FileNotFoundError is caught by the except,
\* which logs the error and returns None.
GetSessionTraceIdOpen(p) ==
    /\ op[p] = "get_session_trace_id" /\ pc[p] = "t_open"
    /\ IF ctxPath[arg[p].gen] = 0
       THEN Return(p, Res("None")) /\ CtxReturnFrame
       ELSE /\ Goto(p, "t_lock", loc[p])
            /\ fd' = [fd EXCEPT ![p] = ctxPath[arg[p].gen]]
            /\ UNCHANGED lk
            /\ CtxStepFrame

GetSessionTraceIdLock(p) ==
    CtxLockShared(p, "get_session_trace_id", "t_lock", "t_read")

\* context = json.load(f); return context.get("session_trace_id").  On a
\* file of zero bytes json.load raises and the except returns None.
GetSessionTraceIdRead(p) ==
    /\ op[p] = "get_session_trace_id" /\ pc[p] = "t_read"
    /\ Return(p, IF ctxIno[fd[p]].trunc THEN Res("None")
                 ELSE ResTid(ctxIno[fd[p]].session_trace_id))
    /\ CtxReturnFrame

(***************************************************************************)
(* GenerationContextManager.cleanup_context                                *)
(***************************************************************************)
StartCleanup(p, g) ==
    /\ Begin(p, "cleanup_context", "c_exists",
             [NoArg EXCEPT !.id = nOps + 1, !.gen = g], NoLoc)
    /\ UNCHANGED <<spanFs, cfgVars, ctxFs, histVars>>

\* if context_file.exists():
CleanupExists(p) ==
    /\ op[p] = "cleanup_context" /\ pc[p] = "c_exists"
    /\ IF ctxPath[arg[p].gen] = 0
       THEN Return(p, Res("None")) /\ CtxReturnFrame
       ELSE Goto(p, "c_unlink", loc[p]) /\ UNCHANGED <<fd, lk>> /\ CtxStepFrame

\* context_file.unlink(); a file that is gone by now raises and the except
\* logs a warning.
CleanupUnlink(p) ==
    /\ op[p] = "cleanup_context" /\ pc[p] = "c_unlink"
    /\ ctxPath' = [ctxPath EXCEPT ![arg[p].gen] = 0]
    /\ Return(p, Res("None"))
    /\ UNCHANGED <<spanFs, ctxIno, convMap, nOps, calls, cfgVars, exportRes,
                   unlinked, uploads, appended, stopSeen>>

SaveStep(p) ==
    \/ SaveExists(p) \/ SaveOpenRead(p) \/ SaveLockShared(p) \/ SaveRead(p)
    \/ SaveOpenWrite(p) \/ SaveLockExclusive(p) \/ SaveDump(p)

GetParentStep(p) ==
    \/ GetParentExists(p) \/ GetParentOpen(p) \/ GetParentLock(p)
    \/ GetParentRead(p) \/ GetParentError(p)

GetSessionTraceIdStep(p) ==
    \/ GetSessionTraceIdExists(p) \/ GetSessionTraceIdOpen(p)
    \/ GetSessionTraceIdLock(p) \/ GetSessionTraceIdRead(p)

CleanupStep(p) == CleanupExists(p) \/ CleanupUnlink(p)

(***************************************************************************)
(* CursorHookProcessor.process_hook (hook_receiver.py) in batching mode:   *)
(* protocol http/json, so span_processor is a GenerationBatchingProcessor  *)
(* and context_manager a GenerationContextManager.  One invocation is one  *)
(* process; generation "unknown" is a hook_data without generation_id,     *)
(* generation "" one whose generation_id is the empty string.              *)
(* Random span and trace ids are fresh values.                             *)
(***************************************************************************)
\* random.getrandbits(64) for the span of invocation o, for the placeholder
\* parent SpanContext built around a root span, and the random trace id
\* tracer.start_span draws for a span without context.
SpanIdOf(o) == o
PlaceholderIdOf(o) == MaxOps + 1 + o
RandomTraceIdOf(o) == 2 + o

\* Process p calls function f from process_hook and goes on at next when
\* the call returns.
Call(p, f, at, next, l) ==
    /\ op' = [op EXCEPT ![p] = f]
    /\ pc' = [pc EXCEPT ![p] = at]
    /\ arg' = [arg EXCEPT ![p].top = "process_hook", ![p].next = next]
    /\ loc' = [loc EXCEPT ![p] = l]
    /\ UNCHANGED <<fd, lk>>

\* Position at of process_hook.
InHook(p, at) == op[p] = "process_hook" /\ pc[p] = at

StartHook(p, ev, conv, g) ==
    /\ Begin(p, "process_hook", "h_start",
             [NoArg EXCEPT !.id = nOps + 1, !.ev = ev, !.conv = conv, !.gen = g],
             NoLoc)
    /\ UNCHANGED <<spanFs, cfgVars, ctxFs, histVars>>

\* parent_context = get_parent_context(generation_id, hook_event) when the
\* generation is known, None otherwise.
GetParent(p) ==
    IF arg[p].gen # "unknown"
    THEN Call(p, "get_parent_context", "g_exists", "h_create", NoLoc)
    ELSE /\ arg' = [arg EXCEPT ![p].ret = Res("None")]
         /\ pc' = [pc EXCEPT ![p] = "h_create"]
         /\ UNCHANGED <<op, loc, fd, lk>>

\* A process_hook that never flushes: every event goes straight to the
\* parent lookup.
HookStartNoFlush(p) ==
    /\ InHook(p, "h_start")
    /\ GetParent(p)
    /\ UNCHANGED <<spanFs, nOps, calls, cfgVars, ctxFs, histVars>>

\* if hook_event == "stop" and generation_id != "unknown": flush_generation;
\* any other event goes straight to the parent lookup.
HookStart(p) ==
    /\ InHook(p, "h_start")
    /\ IF arg[p].ev = "stop" /\ arg[p].gen # "unknown"
       THEN /\ Call(p, "flush_generation", "f_exists", "h_cleanup",
                    [NoLoc EXCEPT !.snap = StoreRids(arg[p].gen),
                                  !.ino0 = spanPath[arg[p].gen]])
            /\ stopSeen' = stopSeen \cup {arg[p].gen}
       ELSE /\ GetParent(p)
            /\ UNCHANGED stopSeen
    /\ UNCHANGED <<spanFs, nOps, calls, cfgVars, ctxFs, result, exportRes,
                   unlinked, uploads, appended>>

\* self.context_manager.cleanup_context(generation_id)
HookCleanup(p) ==
    /\ InHook(p, "h_cleanup")
    /\ Call(p, "cleanup_context", "c_exists", "h_parent", NoLoc)
    /\ CtxStepFrame

\* After the cleanup of a stop event: the parent lookup.
HookParent(p) ==
    /\ InHook(p, "h_parent")
    /\ GetParent(p)
    /\ CtxStepFrame

\* get_conversation_trace_id: the trace id stored for the conversation,
\* 0 (None) when there is none.
get_conversation_trace_id(conversation_id) ==
    IF conversation_id \in Convs THEN convMap[conversation_id] ELSE 0

\* save_conversation_trace_id: the conversation map with the trace id of
\* the conversation replaced.
save_conversation_trace_id(conversation_id, trace_id) ==
    [convMap EXCEPT ![conversation_id] = trace_id]

\* A root span that always takes the trace id tracer.start_span draws.
CreateRootSpanRandom(o, hook_event, conversation_id) ==
    [tid |-> RandomTraceIdOf(o), sid |-> SpanIdOf(o), psid |-> 0]

\* A root span that never looks at the conversation map.
CreateRootSpanNoConversation(o, hook_event, conversation_id) ==
    IF hook_event = "sessionStart" /\ conversation_id # "unknown"
    THEN [tid |-> generate_session_trace_id(conversation_id),
          sid |-> SpanIdOf(o), psid |-> PlaceholderIdOf(o)]
    ELSE [tid |-> RandomTraceIdOf(o), sid |-> SpanIdOf(o), psid |-> 0]

\* _create_span_with_context with parent_context None: the ids of the span
\* of invocation o.  A span started under a placeholder SpanContext takes
\* that context's trace id and has its random span id as parent.
CreateRootSpan(o, hook_event, conversation_id) ==
    IF hook_event = "sessionStart" /\ conversation_id # "unknown"
    THEN [tid |-> generate_session_trace_id(conversation_id),
          sid |-> SpanIdOf(o), psid |-> PlaceholderIdOf(o)]
    ELSE IF /\ conversation_id # "unknown"
            /\ get_conversation_trace_id(conversation_id) # 0
    THEN [tid |-> get_conversation_trace_id(conversation_id),
          sid |-> SpanIdOf(o), psid |-> PlaceholderIdOf(o)]
    ELSE [tid |-> RandomTraceIdOf(o), sid |-> SpanIdOf(o), psid |-> 0]

\* A child span that always takes the trace id of the parent pointer.
CreateChildSpanParentTrace(o, parent_context, session_trace_id, conversation_id) ==
    [tid |-> parent_context.trace_id, sid |-> SpanIdOf(o),
     psid |-> parent_context.span_id]

\* _create_span_with_context with a parent: session_trace_id is what
\* get_session_trace_id returned (0: None).
CreateChildSpan(o, parent_context, session_trace_id, conversation_id) ==
    LET tid == IF session_trace_id = 0 /\ conversation_id # "unknown"
               THEN get_conversation_trace_id(conversation_id)
               ELSE session_trace_id
    IN  [tid |-> IF tid # 0 THEN tid ELSE parent_context.trace_id,
         sid |-> SpanIdOf(o), psid |-> parent_context.span_id]

\* span = self._create_span_with_context(...): without a parent the span
\* is created at once, with a parent get_session_trace_id is called first.
HookCreate(p) ==
    /\ InHook(p, "h_create")
    /\ IF arg[p].ret.ptr = NoPtr
       THEN /\ LET s == CreateRootSpan(arg[p].id, arg[p].ev, arg[p].conv) IN
               arg' = [arg EXCEPT ![p].tid = s.tid, ![p].sid = s.sid,
                                  ![p].psid = s.psid]
            /\ pc' = [pc EXCEPT ![p] = "h_finally"]
            /\ UNCHANGED <<op, loc, fd, lk>>
       ELSE /\ op' = [op EXCEPT ![p] = "get_session_trace_id"]
            /\ pc' = [pc EXCEPT ![p] = "t_exists"]
            /\ arg' = [arg EXCEPT ![p].par = arg[p].ret.ptr,
                                  ![p].top = "process_hook",
                                  ![p].next = "h_create_child"]
            /\ UNCHANGED <<loc, fd, lk>>
    /\ CtxStepFrame

HookCreateChild(p) ==
    /\ InHook(p, "h_create_child")
    /\ LET s == CreateChildSpan(arg[p].id, arg[p].par, arg[p].ret.tid, arg[p].conv) IN
       arg' = [arg EXCEPT ![p].tid = s.tid, ![p].sid = s.sid, ![p].psid = s.psid]
    /\ pc' = [pc EXCEPT ![p] = "h_finally"]
    /\ UNCHANGED <<op, loc, fd, lk>>
    /\ CtxStepFrame

\* The body of "with span:" only touches the span; its finally block saves
\* the conversation's trace id on sessionStart and then calls
\* save_span_context when the generation is known.
HookFinally(p) ==
    /\ InHook(p, "h_finally")
    /\ convMap' = IF arg[p].ev = "sessionStart" /\ arg[p].conv # "unknown"
                  THEN save_conversation_trace_id(arg[p].conv, arg[p].tid)
                  ELSE convMap
    /\ IF arg[p].gen # "unknown"
       THEN Call(p, "save_span_context", "s_exists", "h_end", NoLoc)
       ELSE Goto(p, "h_end", loc[p]) /\ UNCHANGED <<fd, lk>>
    /\ UNCHANGED <<spanFs, ctxPath, ctxIno, nOps, calls, cfgVars, histVars>>

OnEndAlwaysExport(generation_id) == "export"

\* on_end: a span without generation id is exported at once, any other
\* span is stored.  "if not generation_id" holds for a span without the
\* attribute (hook data without generation_id) and for an empty value.
OnEndTarget(generation_id) ==
    IF generation_id \in {"unknown", ""} THEN "export" ELSE "store"

\* Leaving "with span:" ends the span: GenerationBatchingProcessor.on_end.
HookEnd(p) ==
    /\ InHook(p, "h_end")
    /\ LET span == SpanOf(arg[p]) IN
       IF OnEndTarget(arg[p].gen) = "store"
       THEN /\ op' = [op EXCEPT ![p] = "store_span"]
            /\ pc' = [pc EXCEPT ![p] = "a_open"]
            /\ arg' = [arg EXCEPT ![p].top = "process_hook",
                                  ![p].next = "h_done"]
            /\ UNCHANGED <<loc, fd, lk, uploads>>
       ELSE /\ uploads' = uploads \cup {[op |-> arg[p].id, gen |-> arg[p].gen,
                                         spans |-> <<span>>,
                                         payload |-> EncodeSpans(
                                             <<span>>, arg[p].service_name)]}
            /\ Goto(p, "h_done", loc[p])
            /\ UNCHANGED <<fd, lk>>
    /\ UNCHANGED <<spanFs, nOps, calls, cfgVars, ctxFs, result, exportRes,
                   unlinked, appended, stopSeen>>

\* GenerationBatchingProcessor.force_flush, callable while the processor
\* lives: it only logs and returns True.
ForceFlush(p) ==
    /\ InHook(p, "h_done")
    /\ arg' = [arg EXCEPT ![p].ret = Res("True")]
    /\ pc' = [pc EXCEPT ![p] = "h_exit"]
    /\ UNCHANGED <<op, loc, fd, lk>>
    /\ CtxStepFrame

\* process_hook returns the response; main prints it and the process exits.
HookExit(p) ==
    /\ op[p] = "process_hook" /\ pc[p] \in {"h_done", "h_exit"}
    /\ op' = [op EXCEPT ![p] = "idle"]
    /\ pc' = [pc EXCEPT ![p] = "done"]
    /\ arg' = [arg EXCEPT ![p] = NoArg]
    /\ result' = [result EXCEPT ![arg[p].id] = Res("response")]
    /\ UNCHANGED <<loc, fd, lk>>
    /\ CtxReturnFrame

HookStep(p) ==
    \/ HookStart(p) \/ HookCleanup(p) \/ HookParent(p) \/ HookCreate(p)
    \/ HookCreateChild(p) \/ HookFinally(p) \/ HookEnd(p) \/ ForceFlush(p)
    \/ HookExit(p)

(***************************************************************************)
(* Specification of the span store: processes append to and flush one      *)
(* generation concurrently.                                                *)
(***************************************************************************)
\* max_age_hours: int = 24, and no file older than the invocations of the
\* behaviour.
NoOldFiles ==
    /\ max_age_hours = 24
    /\ fileAge = <<>>

InitProcs ==
    /\ op = [p \in Procs |-> "idle"]
    /\ pc = [p \in Procs |-> "done"]
    /\ arg = [p \in Procs |-> NoArg]
    /\ fd = [p \in Procs |-> 0]
    /\ lk = [p \in Procs |-> "un"]
    /\ loc = [p \in Procs |-> NoLoc]
    /\ nOps = 0
    /\ calls = <<>>

InitFiles ==
    /\ spanPath = [g \in Gens |-> 0]
    /\ spanIno = <<>>
    /\ ctxPath = [g \in Gens |-> 0]
    /\ ctxIno = <<>>
    /\ convMap = [c \in Convs |-> 0]
    /\ nextIno = 0

InitHist ==
    /\ stopSeen = {}
    /\ result = [o \in OpIds |-> Res("none")]
    /\ exportRes = [o \in OpIds |-> "none"]
    /\ unlinked = {}
    /\ uploads = {}
    /\ appended = {}

InitStore ==
    /\ InitProcs /\ InitFiles /\ InitHist
    /\ NoOldFiles
    /\ debug \in BOOLEAN
    /\ exporterJson \in BOOLEAN

StoreStep(p) ==
    \/ StoreSpanOpen(p) \/ StoreSpanLock(p) \/ StoreSpanWrite(p)
    \/ StoreSpanFlush(p) \/ KillMidWrite(p)

FlushStep(p) ==
    \/ FlushExists(p) \/ FlushOpen(p) \/ FlushLock(p) \/ FlushRead(p)
    \/ FlushUnlinkEmpty(p)
    \/ FlushExport(p) \/ FlushUnlink(p)

\* Invocations of one behaviour of the span store.
MaxStoreOps == 4

StoreInvokeAppend(p) == nOps < MaxStoreOps /\ StartStoreSpan(p, "g1")

StoreInvokeFlush(p) == nOps < MaxStoreOps /\ StartFlush(p, "g1")

NextStore ==
    \E p \in Procs :
        \/ StoreInvokeAppend(p)
        \/ StoreInvokeFlush(p)
        \/ StoreStep(p)
        \/ FlushStep(p)

SpecStore == InitStore /\ [][NextStore]_vars

(***************************************************************************)
(* Specification of the context store: processes save to, read and clean   *)
(* up the context record of one generation concurrently.  Every span of    *)
(* the conversation has the trace id of conversation c1; the span id of a  *)
(* save is the number of its invocation.                                   *)
(***************************************************************************)
\* Invocations of one behaviour of the context store.
MaxCtxOps == 3
CtxSaveEvents == {"sessionStart", "subagentStart", "preToolUse"}
CtxReadEvents == {"preToolUse", "postToolUse"}

InitCtx ==
    /\ InitProcs /\ InitFiles /\ InitHist
    /\ NoOldFiles
    /\ debug = FALSE /\ exporterJson = TRUE

CtxStartSave(p) ==
    /\ nOps < MaxCtxOps
    /\ \E ev \in CtxSaveEvents :
          StartSave(p, "g1", ev, generate_session_trace_id("c1"), nOps + 1)

CtxStartGetParent(p) ==
    /\ nOps < MaxCtxOps
    /\ \E ev \in CtxReadEvents : StartGetParent(p, "g1", ev)

CtxStartCleanup(p) == nOps < MaxCtxOps /\ StartCleanup(p, "g1")

CtxStartGetSessionTraceId(p) ==
    nOps < MaxCtxOps /\ StartGetSessionTraceId(p, "g1")

NextCtx ==
    \E p \in Procs :
        \/ CtxStartSave(p)
        \/ CtxStartGetParent(p)
        \/ CtxStartCleanup(p)
        \/ CtxStartGetSessionTraceId(p)
        \/ SaveStep(p)
        \/ GetParentStep(p)
        \/ GetSessionTraceIdStep(p)
        \/ CleanupStep(p)

SpecCtx == InitCtx /\ [][NextCtx]_vars

(***************************************************************************)
(* Specification of the hook receiver: invocations of process_hook for one *)
(* conversation run concurrently, each in its own process.                 *)
(***************************************************************************)
\* Invocations of one behaviour of the hook receiver.
MaxHookOps == 2
HookEvents == {"sessionStart", "stop"}
HookGens == {"g1", "unknown"}

InitHook ==
    /\ InitProcs /\ InitFiles /\ InitHist
    /\ NoOldFiles
    /\ debug = FALSE /\ exporterJson = TRUE

HookInvoke(p) ==
    /\ nOps < MaxHookOps
    /\ \E ev \in HookEvents, g \in HookGens : StartHook(p, ev, "c1", g)

StoreSpanStep(p) ==
    \/ StoreSpanOpen(p) \/ StoreSpanLock(p) \/ StoreSpanWrite(p)
    \/ StoreSpanFlush(p)

NextHook ==
    \E p \in Procs :
        \/ HookInvoke(p)
        \/ HookStep(p)
        \/ FlushStep(p)
        \/ StoreSpanStep(p)
        \/ SaveStep(p)
        \/ GetParentStep(p)
        \/ GetSessionTraceIdStep(p)
        \/ CleanupStep(p)

SpecHook == InitHook /\ [][NextHook]_vars

(***************************************************************************)
(* Specification of one hook chain: the invocations of one generation run  *)
(* one after the other, as Cursor fires the hooks of one agent turn, on a  *)
(* context store that starts without a record.                             *)
(***************************************************************************)
\* Invocations of one behaviour of the hook chain.
MaxSeqOps == 5
SeqSaveEvents == {"sessionStart", "subagentStart", "preToolUse", "postToolUse"}
SeqReadEvents == {"subagentStart", "preToolUse", "postToolUse"}

InitSeq ==
    /\ InitProcs /\ InitFiles /\ InitHist
    /\ NoOldFiles
    /\ debug = FALSE /\ exporterJson = TRUE

\* The previous invocation has exited before the next one starts.
SeqReady == nOps < MaxSeqOps /\ \A q \in Procs : Idle(q)

SeqSave(p) ==
    /\ SeqReady
    /\ \E ev \in SeqSaveEvents :
          StartSave(p, "g1", ev, generate_session_trace_id("c1"), nOps + 1)

SeqGetParent(p) ==
    /\ SeqReady
    /\ \E ev \in SeqReadEvents : StartGetParent(p, "g1", ev)

NextSeq ==
    \E p \in Procs :
        \/ SeqSave(p)
        \/ SeqGetParent(p)
        \/ SaveStep(p)
        \/ GetParentExists(p)
        \/ GetParentOpen(p)
        \/ GetParentLock(p)
        \/ GetParentRead(p)

SpecSeq == InitSeq /\ [][NextSeq]_vars

(***************************************************************************)
(* Specification of the invocations that meet a stored record: the context *)
(* file of the generation is absent, holds a record that earlier saves     *)
(* left, or holds zero bytes (a save that was killed before its dump); the *)
(* invocations then run one after the other, for every hook event name.    *)
(***************************************************************************)
\* Invocations of one behaviour on a stored record.
MaxRecOps == 2
\* The event names of _map_event_to_operation, the stop event and a name
\* (preCompact) that no branch of the context manager knows.
OtherEvents == {"beforeSubmitPrompt", "stop", "preCompact"}
HookEventNames ==
    RootEvents \cup {"sessionEnd", "subagentStart", "subagentStop"}
        \cup ToolStartEvents \cup ToolDoneEvents \cup OtherEvents

\* Pointers of spans saved before the behaviour starts, in a trace whose id
\* differs from the one the invocations of the behaviour save; span ids
\* beyond 10 are not used by the invocations of the behaviour.
StoredSession == Ptr(RandomTraceIdOf(0), 11)
StoredSubagent == Ptr(RandomTraceIdOf(0), 12)
StoredTool == Ptr(RandomTraceIdOf(0), 13)

\* The records sequences of saves produce: session_trace_id is written
\* together with the session pointer and removed together with it.
StoredContexts ==
    {[current_session_span |-> s, current_subagent_span |-> a,
      current_tool_span |-> t,
      session_trace_id |-> IF s = NoPtr THEN 0 ELSE s.trace_id,
      trunc |-> FALSE] :
        s \in {NoPtr, StoredSession}, a \in {NoPtr, StoredSubagent},
        t \in {NoPtr, StoredTool}}

InitRec ==
    /\ InitProcs /\ InitHist
    /\ NoOldFiles
    /\ debug = FALSE /\ exporterJson = TRUE
    /\ spanPath = [g \in Gens |-> 0]
    /\ spanIno = <<>>
    /\ convMap = [c \in Convs |-> 0]
    /\ \/ /\ ctxPath = [g \in Gens |-> 0]
          /\ ctxIno = <<>>
          /\ nextIno = 0
       \/ /\ ctxPath = [g \in Gens |-> IF g = "g1" THEN 1 ELSE 0]
          /\ \E c \in StoredContexts \cup {Truncated} : ctxIno = (1 :> c)
          /\ nextIno = 1

RecReady == nOps < MaxRecOps /\ \A q \in Procs : Idle(q)

RecSave(p) ==
    /\ RecReady
    /\ \E ev \in HookEventNames :
          StartSave(p, "g1", ev, generate_session_trace_id("c1"), nOps + 1)

RecGetParent(p) ==
    /\ RecReady
    /\ \E ev \in HookEventNames : StartGetParent(p, "g1", ev)

RecGetSessionTraceId(p) == RecReady /\ StartGetSessionTraceId(p, "g1")

NextRec ==
    \E p \in Procs :
        \/ RecSave(p)
        \/ RecGetParent(p)
        \/ RecGetSessionTraceId(p)
        \/ SaveStep(p)
        \/ GetParentStep(p)
        \/ GetSessionTraceIdStep(p)

SpecRec == InitRec /\ [][NextRec]_vars

(***************************************************************************)
(* Specification of the trace identity of spans: the invocations of        *)
(* process_hook run one after the other, for two generations and with or   *)
(* without a conversation id.  They meet what earlier invocations left:    *)
(* no context record of generation g1 or one of the stored records, and    *)
(* a conversation map with or without the trace id of conversation c1.     *)
(***************************************************************************)
\* Invocations of one behaviour of the trace identity.
MaxTraceOps == 2
TraceEvents == {"sessionStart", "preToolUse", "stop"}
TraceGens == {"g1", "g2"}
TraceConvs == {"c1", "unknown"}

InitTrace ==
    /\ InitProcs /\ InitHist
    /\ NoOldFiles
    /\ debug = FALSE /\ exporterJson = TRUE
    /\ spanPath = [g \in Gens |-> 0]
    /\ spanIno = <<>>
    /\ convMap \in [Convs -> {0, generate_session_trace_id("c1")}]
    /\ \/ /\ ctxPath = [g \in Gens |-> 0]
          /\ ctxIno = <<>>
          /\ nextIno = 0
       \/ /\ ctxPath = [g \in Gens |-> IF g = "g1" THEN 1 ELSE 0]
          /\ \E c \in StoredContexts : ctxIno = (1 :> c)
          /\ nextIno = 1

TraceInvoke(p) ==
    /\ nOps < MaxTraceOps
    /\ \A q \in Procs : Idle(q)
    /\ \E ev \in TraceEvents, g \in TraceGens, conv \in TraceConvs :
          StartHook(p, ev, conv, g)

NextTrace ==
    \E p \in Procs :
        \/ TraceInvoke(p)
        \/ HookStep(p)
        \/ FlushExists(p) \/ FlushOpen(p) \/ FlushLock(p) \/ FlushRead(p)
        \/ FlushExport(p) \/ FlushUnlink(p)
        \/ StoreSpanStep(p)
        \/ SaveStep(p)
        \/ GetParentExists(p) \/ GetParentOpen(p) \/ GetParentLock(p)
        \/ GetParentRead(p)
        \/ GetSessionTraceIdStep(p)
        \/ CleanupStep(p)

SpecTrace == InitTrace /\ [][NextTrace]_vars

(***************************************************************************)
(* Specification of the generation id of an event: the invocations of      *)
(* process_hook run one after the other on empty stores, with hook data    *)
(* that carry a generation id, none, or an empty one.                      *)
(***************************************************************************)
\* Invocations of one behaviour of the generation ids.
MaxGenIdOps == 2
GenIdGens == {"g1", "unknown", ""}

GenIdInvoke(p) ==
    /\ nOps < MaxGenIdOps
    /\ \A q \in Procs : Idle(q)
    /\ \E ev \in TraceEvents, g \in GenIdGens : StartHook(p, ev, "c1", g)

NextGenId ==
    \E p \in Procs :
        \/ GenIdInvoke(p)
        \/ HookStep(p)
        \/ FlushExists(p) \/ FlushOpen(p) \/ FlushLock(p) \/ FlushRead(p)
        \/ FlushExport(p) \/ FlushUnlink(p)
        \/ StoreSpanStep(p)
        \/ SaveStep(p)
        \/ GetParentExists(p) \/ GetParentOpen(p) \/ GetParentLock(p)
        \/ GetParentRead(p)
        \/ GetSessionTraceIdStep(p)
        \/ CleanupStep(p)

SpecGenId == InitHook /\ [][NextGenId]_vars

(***************************************************************************)
(* Specification of failing file operations: the invocations of            *)
(* process_hook run one after the other, and the open of the span store    *)
(* or of the context file may raise OSError (no space, no permission);     *)
(* the upload of a flush may fail as in every specification.  A process    *)
(* that can take a step eventually takes one.                              *)
(***************************************************************************)
\* Invocations of one behaviour with failing file operations.
MaxFailOps == 2

\* An exception that leaves process_hook: the process ends without having
\* returned a response.
StoreSpanFailEscapes(p) ==
    /\ op[p] = "store_span" /\ pc[p] = "a_open"
    /\ op' = [op EXCEPT ![p] = "idle"]
    /\ pc' = [pc EXCEPT ![p] = "done"]
    /\ arg' = [arg EXCEPT ![p] = NoArg]
    /\ loc' = [loc EXCEPT ![p] = NoLoc]
    /\ result' = [result EXCEPT ![arg[p].id] = Res("raised")]
    /\ UNCHANGED <<fd, lk>>
    /\ CtxReturnFrame

\* open(span_file, "a") raises: _store_span logs and raises again, the
\* except of on_end logs "Error storing span" and on_end returns.
StoreSpanFail(p) ==
    /\ op[p] = "store_span" /\ pc[p] = "a_open"
    /\ Return(p, Res("error"))
    /\ CtxReturnFrame

\* open(context_file, "w") raises: the except of save_span_context logs
\* "Error saving context" and the call returns.
SaveFail(p) ==
    /\ op[p] = "save_span_context" /\ pc[p] = "s_openw"
    /\ Return(p, Res("error"))
    /\ CtxReturnFrame

FailInvoke(p) ==
    /\ nOps < MaxFailOps
    /\ \A q \in Procs : Idle(q)
    /\ \E ev \in TraceEvents : StartHook(p, ev, "c1", "g1")

FailStep(p) ==
    \/ HookStep(p)
    \/ FlushExists(p) \/ FlushOpen(p) \/ FlushLock(p) \/ FlushRead(p)
    \/ FlushExport(p) \/ FlushUnlink(p)
    \/ StoreSpanStep(p) \/ StoreSpanFail(p)
    \/ SaveStep(p) \/ SaveFail(p)
    \/ GetParentExists(p) \/ GetParentOpen(p) \/ GetParentLock(p)
    \/ GetParentRead(p)
    \/ GetSessionTraceIdStep(p)
    \/ CleanupStep(p)

NextFail == \E p \in Procs : FailInvoke(p) \/ FailStep(p)

SpecFail ==
    InitHook /\ [][NextFail]_vars /\ WF_vars(\E p \in Procs : FailStep(p))

(***************************************************************************)
(* Specification of the batch of a flush: a store file of generation g1    *)
(* left by earlier invocations is flushed, one call after the other.  The  *)
(* store is a file that any version and configuration of the program may   *)
(* have written: each of its lines carries a "_resource" of up to two      *)
(* keys, or none.                                                          *)
(***************************************************************************)
\* Number of lines of the store file.
MaxPayloadLines == 3
ResourceKeys == {"service.name", "host.name"}
ResourceValues == {"cursor-agent", "other"}
ServiceNames == ResourceValues

\* The dicts over ResourceKeys and ResourceValues.
Dicts ==
    {<<>>}
    \cup {<<Item(k, v)>> : k \in ResourceKeys, v \in ResourceValues}
    \cup {<<Item("service.name", v), Item("host.name", w)>> :
            v \in ResourceValues, w \in ResourceValues}

Fragments == {NoResource} \cup {Fragment(d) : d \in Dicts}

\* The record that the k-th _store_span call left in the store.
StoredLine(k, r) ==
    OkLine([MkSpan(k, "g1", "span", 0, k, 0) EXCEPT !.resource = r])

InitPayload ==
    /\ \E n \in 0..MaxPayloadLines :
        \E rs \in [1..n -> Fragments] :
            /\ spanIno = <<[k \in 1..n |-> StoredLine(k, rs[k])]>>
            /\ nOps = n
            /\ calls = [k \in 1..n |->
                          [f |-> "store_span", gen |-> "g1", ev |-> "span",
                           conv |-> None, tid |-> 0, sid |-> k]]
            /\ appended = 1..n
            /\ result = [o \in OpIds |-> IF o <= n THEN Res("ok") ELSE Res("none")]
    /\ spanPath = [g \in Gens |-> IF g = "g1" THEN 1 ELSE 0]
    /\ nextIno = 1
    /\ op = [p \in Procs |-> "idle"]
    /\ pc = [p \in Procs |-> "done"]
    /\ arg = [p \in Procs |-> NoArg]
    /\ fd = [p \in Procs |-> 0]
    /\ lk = [p \in Procs |-> "un"]
    /\ loc = [p \in Procs |-> NoLoc]
    /\ ctxPath = [g \in Gens |-> 0]
    /\ ctxIno = <<>>
    /\ convMap = [c \in Convs |-> 0]
    /\ stopSeen = {}
    /\ exportRes = [o \in OpIds |-> "none"]
    /\ unlinked = {}
    /\ uploads = {}
    /\ NoOldFiles
    /\ debug = FALSE
    /\ exporterJson = TRUE

\* The next flush starts when the one before has returned.
PayloadInvoke(p) ==
    /\ \A q \in Procs : Idle(q)
    /\ \E service_name \in ServiceNames : StartFlushAs(p, "g1", service_name)

NextPayload == \E p \in Procs : PayloadInvoke(p) \/ FlushStep(p)

SpecPayload == InitPayload /\ [][NextPayload]_vars

(***************************************************************************)
(* Specification of the id rendering: _span_to_dict (and _encode_span of   *)
(* json_exporter.py, with the same lines) renders the ids of a span with   *)
(* format(id, "032x") and format(id, "016x").  Ids are drawn from the      *)
(* small values, where the number of digits changes, and from larger      *)
(* values up to 2^31 - 1, the largest integer of the model checker.        *)
(***************************************************************************)
\* Invocations of one behaviour, and the end of the range of small ids.
MaxHexOps == 1
MaxSmallId == 16

\* The minimum widths of the presentation types "032x" and "016x".
TraceIdWidth == 32
SpanIdWidth == 16

\* Presentation type "x": base 16 with lower-case letters.
HexDigits == <<"0", "1", "2", "3", "4", "5", "6", "7",
               "8", "9", "a", "b", "c", "d", "e", "f">>

RECURSIVE HexOf(_)
HexOf(x) ==
    IF x < 16 THEN <<HexDigits[x + 1]>>
    ELSE HexOf(x \div 16) \o <<HexDigits[(x % 16) + 1]>>

\* Fill "0" with a minimum width: zeros in front until the text has width
\* characters; a longer text is left as it is.
RECURSIVE ZeroPad(_, _)
ZeroPadNone(text, width) == text

ZeroPad(text, width) ==
    IF Len(text) >= width THEN text ELSE ZeroPad(<<"0">> \o text, width)

\* format(x, "0<width>x") for x >= 0
Format(x, width) == ZeroPad(HexOf(x), width)

\* Reading a hex text as an integer: int(text, 16).
DigitValue(c) == CHOOSE v \in 0..15 : HexDigits[v + 1] = c

RECURSIVE HexDecode(_)
HexDecode(text) ==
    IF text = <<>> THEN 0
    ELSE HexDecode(SubSeq(text, 1, Len(text) - 1)) * 16
             + DigitValue(text[Len(text)])

\* Local variables of _span_to_dict; parent_span_id is <<>> for None.
DictLoc(trace_id, span_id, parent_span_id) ==
    [trace_id |-> trace_id, span_id |-> span_id,
     parent_span_id |-> parent_span_id]

TraceIds == (0..MaxSmallId) \cup {255, 256, 2147483647}
SpanIds == {0, 1, 15, 16, 255, 2147483647}
ParentSpanIds == {0, 16}

\* _span_to_dict(span) for a span with trace id tid, span id sid and
\* parent span id psid (0: span.parent is None).
StartSpanToDict(p, tid, sid, psid) ==
    /\ Begin(p, "span_to_dict", "d_format",
             [NoArg EXCEPT !.id = nOps + 1, !.gen = "g1", !.ev = "span",
                           !.tid = tid, !.sid = sid, !.psid = psid],
             NoLoc)
    /\ UNCHANGED <<spanFs, cfgVars, ctxFs, histVars>>

\* trace_id = format(ctx.trace_id, "032x") and the two lines after it.
SpanToDictFormat(p) ==
    /\ op[p] = "span_to_dict" /\ pc[p] = "d_format"
    /\ Goto(p, "d_return",
            DictLoc(Format(arg[p].tid, TraceIdWidth),
                    Format(arg[p].sid, SpanIdWidth),
                    IF arg[p].psid # 0
                    THEN Format(arg[p].psid, SpanIdWidth) ELSE <<>>))
    /\ UNCHANGED <<fd, lk, spanFs, nOps, calls, cfgVars, ctxFs, histVars>>

\* return otlp_span
SpanToDictReturn(p) ==
    /\ op[p] = "span_to_dict" /\ pc[p] = "d_return"
    /\ Return(p, Res("ok"))
    /\ UNCHANGED <<spanFs, nOps, calls, cfgVars, ctxFs, stopSeen, exportRes,
                   unlinked, uploads, appended>>

InitHex ==
    /\ InitProcs /\ InitFiles /\ InitHist
    /\ NoOldFiles
    /\ debug = FALSE
    /\ exporterJson = TRUE

HexInvoke(p) ==
    /\ nOps < MaxHexOps
    /\ \E tid \in TraceIds, sid \in SpanIds, psid \in ParentSpanIds :
           StartSpanToDict(p, tid, sid, psid)

NextHex ==
    \E p \in Procs : HexInvoke(p) \/ SpanToDictFormat(p) \/ SpanToDictReturn(p)

SpecHex == InitHex /\ [][NextHex]_vars

(***************************************************************************)
(* The retention sweeps: GenerationBatchingProcessor._cleanup_old_files,   *)
(* which shutdown() calls, over <storage_dir>/*.jsonl, and                 *)
(* GenerationContextManager.cleanup_old_contexts over                      *)
(* <storage_dir>/*_context.json.  The two functions have the same body;    *)
(* the directory is chosen by the function that runs.                      *)
(***************************************************************************)
FileAge(i) == IF i \in DOMAIN fileAge THEN fileAge[i] ELSE 0

\* The path table of the directory that the sweep of p scans.
SweptPath(p) == IF op[p] = "cleanup_old_files" THEN spanPath ELSE ctxPath

\* Local variables of a sweep: seen[g] is the inode that the glob listed
\* for generation g (0: no file), todo the listed files not yet visited,
\* cur the file at hand, removed the inodes this sweep unlinked.
SweepLoc(seen, todo, cur, removed) ==
    [seen |-> seen, todo |-> todo, cur |-> cur, removed |-> removed]

\* shutdown(): self._cleanup_old_files(), then exporter.shutdown(), which
\* touches no file.
StartShutdown(p) ==
    /\ Begin(p, "cleanup_old_files", "w_glob",
             [NoArg EXCEPT !.id = nOps + 1], NoLoc)
    /\ UNCHANGED <<spanFs, cfgVars, ctxFs, histVars>>

\* cleanup_old_contexts(max_age_hours), called on demand.
StartCleanupOldContexts(p) ==
    /\ Begin(p, "cleanup_old_contexts", "w_glob",
             [NoArg EXCEPT !.id = nOps + 1], NoLoc)
    /\ UNCHANGED <<spanFs, cfgVars, ctxFs, histVars>>

Sweeping(p, at) ==
    /\ op[p] \in {"cleanup_old_files", "cleanup_old_contexts"}
    /\ pc[p] = at

\* storage_dir.glob(...): the entries of the directory are listed.
SweepGlob(p) ==
    /\ Sweeping(p, "w_glob")
    /\ Goto(p, "w_next",
            SweepLoc([g \in Gens |-> SweptPath(p)[g]],
                     {g \in Gens : SweptPath(p)[g] # 0}, None, {}))
    /\ UNCHANGED <<fd, lk, spanFs, nOps, calls, cfgVars, ctxFs, histVars>>

\* file_age > max_age_seconds
IsOld(age, hours) == age > hours * 3600

\* The loop takes the next listed file, in directory order (any order):
\* stat() raises when the file is gone, and the except around the loop
\* logs the error and ends the sweep.  The loop ends after the last file.
SweepStat(p) ==
    /\ Sweeping(p, "w_next")
    /\ IF loc[p].todo = {}
       THEN Return(p, Res("None"))
       ELSE \E g \in loc[p].todo :
               IF SweptPath(p)[g] = 0
               THEN Return(p, Res("error"))
               ELSE /\ Goto(p,
                            IF IsOld(FileAge(SweptPath(p)[g]), max_age_hours)
                            THEN "w_unlink" ELSE "w_next",
                            [loc[p] EXCEPT !.todo = @ \ {g}, !.cur = g])
                    /\ UNCHANGED <<fd, lk, result>>
    /\ UNCHANGED <<spanFs, nOps, calls, cfgVars, ctxFs, stopSeen, exportRes,
                   unlinked, uploads, appended>>

\* span_file.unlink() / context_file.unlink(): the file that the path
\* names now is removed; FileNotFoundError ends the sweep.
SweepUnlink(p) ==
    /\ Sweeping(p, "w_unlink")
    /\ LET g == loc[p].cur IN
       IF SweptPath(p)[g] = 0
       THEN /\ Return(p, Res("error"))
            /\ UNCHANGED <<spanPath, ctxPath>>
       ELSE /\ IF op[p] = "cleanup_old_files"
               THEN /\ spanPath' = [spanPath EXCEPT ![g] = 0]
                    /\ UNCHANGED ctxPath
               ELSE /\ ctxPath' = [ctxPath EXCEPT ![g] = 0]
                    /\ UNCHANGED spanPath
            /\ Goto(p, "w_next",
                    [loc[p] EXCEPT !.removed = @ \cup {SweptPath(p)[g]}])
            /\ UNCHANGED <<fd, lk, result>>
    /\ UNCHANGED <<spanIno, nextIno, ctxIno, convMap, nOps, calls, cfgVars,
                   stopSeen, exportRes, unlinked, uploads, appended>>

SweepStep(p) == SweepGlob(p) \/ SweepStat(p) \/ SweepUnlink(p)

(***************************************************************************)
(* Specification of the sweeps: the directories hold the files that        *)
(* earlier generations left, of several ages; processes sweep them, and a  *)
(* process may flush a store.                                              *)
(***************************************************************************)
\* Invocations of one behaviour.
MaxSweepOps == 2
SweepGens == {"g1", "g2"}
\* Ages in seconds: half an hour, one hour and two hours.
Ages == {1800, 3600, 7200}
Thresholds == {1, 2}
Absent == 0 - 1

SpanInodeOf(g) == IF g = "g1" THEN 1 ELSE 2
CtxInodeOf(g) == 2 + SpanInodeOf(g)

InitSweep ==
    /\ InitProcs /\ InitHist
    /\ debug = FALSE /\ exporterJson = TRUE
    /\ max_age_hours \in Thresholds
    /\ \E sa \in [SweepGens -> Ages \cup {Absent}],
          ca \in [SweepGens -> Ages \cup {Absent}] :
        LET sg == {g \in SweepGens : sa[g] # Absent}
            cg == {g \in SweepGens : ca[g] # Absent}
        IN  /\ spanPath = [g \in Gens |-> IF g \in sg THEN SpanInodeOf(g) ELSE 0]
            /\ spanIno = [i \in {SpanInodeOf(g) : g \in sg} |->
                             <<OkLine(SpanData([NoArg EXCEPT !.id = i, !.sid = i]))>>]
            /\ ctxPath = [g \in Gens |-> IF g \in cg THEN CtxInodeOf(g) ELSE 0]
            /\ ctxIno = [i \in {CtxInodeOf(g) : g \in cg} |-> EmptyContext]
            /\ fileAge = [i \in {SpanInodeOf(g) : g \in sg}
                                \cup {CtxInodeOf(g) : g \in cg} |->
                             IF i <= 2
                             THEN sa[CHOOSE g \in sg : SpanInodeOf(g) = i]
                             ELSE ca[CHOOSE g \in cg : CtxInodeOf(g) = i]]
    /\ convMap = [c \in Convs |-> 0]
    /\ nextIno = 4

SweepInvoke(p) ==
    /\ nOps < MaxSweepOps
    /\ StartShutdown(p) \/ StartCleanupOldContexts(p)

\* The stop event of a generation arrives after all: its store is flushed.
SweepInvokeFlush(p) ==
    /\ nOps < MaxSweepOps
    /\ \E g \in SweepGens : StartFlush(p, g)

NextSweep ==
    \E p \in Procs :
        \/ SweepInvoke(p)
        \/ SweepInvokeFlush(p)
        \/ SweepStep(p)
        \/ FlushExists(p) \/ FlushOpen(p) \/ FlushLock(p) \/ FlushRead(p)
        \/ FlushExport(p) \/ FlushUnlink(p)

SpecSweep == InitSweep /\ [][NextSweep]_vars

(***************************************************************************)
(* Specification of the calls of the flush: processes append to and flush  *)
(* one generation concurrently, as in SpecStore, without debug mode and    *)
(* with the JSON exporter, and every process that can take a step takes    *)
(* one in the end: the operating system schedules                          *)
(* every process, file operations return, flock is granted when the lock   *)
(* is free, and the exporter answers within its timeout.                   *)
(***************************************************************************)
\* Invocations of one behaviour of the flush.
MaxFlushOps == 3

FlushInvokeAppend(p) == nOps < MaxFlushOps /\ StartStoreSpan(p, "g1")

FlushInvokeFlush(p) == nOps < MaxFlushOps /\ StartFlush(p, "g1")

NextFlush ==
    \E p \in Procs :
        \/ FlushInvokeAppend(p)
        \/ FlushInvokeFlush(p)
        \/ StoreStep(p)
        \/ FlushStep(p)

SpecFlush ==
    /\ InitHook /\ [][NextFlush]_vars
    /\ \A p \in Procs : WF_vars(StoreStep(p) \/ FlushStep(p))

(***************************************************************************)
(* Properties of the span store (SpecStore).                               *)
(***************************************************************************)
Rids(spans) == {spans[k].rid : k \in 1..Len(spans)}
UploadedRids == UNION {Rids(u.spans) : u \in uploads}
Quiescent == \A p \in Procs : Idle(p)
NoKill == \A o \in OpIds : result[o].st # "killed"
Flushing(p, at) == op[p] = "flush_generation" /\ pc[p] = at

\* C1: an append of record r that races a flush of the same generation is
\* not silently lost: once every call has returned, each record whose
\* _store_span returned is in a batch handed to the exporter or in the
\* generation's store file.
C1_AppendNotLost ==
    (Quiescent /\ NoKill) =>
        \A r \in appended : r \in UploadedRids \/ r \in StoreRids("g1")

\* C2 as stated: the batch a flush is about to hand to the exporter holds
\* every record that was in the store when flush_generation was called.
C2_BatchHoldsEarlierRecords ==
    \A p \in Procs :
        Flushing(p, "f_export") => loc[p].snap \subseteq Rids(loc[p].spans_data)

\* C2 amended: the batch holds every record that was in the store when
\* flush_generation was called, provided the file the flush opens is the
\* file that was there at the call (no other flush removed it in between).
C2_BatchHoldsEarlierRecordsOfSameFile ==
    \A p \in Procs :
        (Flushing(p, "f_export") /\ loc[p].ino = loc[p].ino0)
            => loc[p].snap \subseteq Rids(loc[p].spans_data)

C2_Witness ==
    \E p \in Procs :
        /\ Flushing(p, "f_export") /\ loc[p].ino = loc[p].ino0
        /\ Cardinality(loc[p].snap) >= 2
        /\ loc[p].snap \subseteq Rids(loc[p].spans_data)

\* C3: after M processes appended one record each to the same generation,
\* in any interleaving, the drain that follows reads exactly those M
\* records, each from a well-formed line of its own.
C3_ConcurrentAppendsAllDrained ==
    \A p \in Procs :
        (/\ Flushing(p, "f_read")
         /\ \A q \in Procs \ {p} : Idle(q)
         /\ NoKill /\ unlinked = {})
        => /\ AllParse(spanIno[fd[p]])
           /\ Rids(ParseLines(spanIno[fd[p]])) = appended
           /\ Len(ParseLines(spanIno[fd[p]])) = Cardinality(appended)

\* Record 2 was started after record 1 and written before it: the two
\* appends overlapped.
C3_Witness ==
    \E p \in Procs :
        /\ Flushing(p, "f_read")
        /\ \A q \in Procs \ {p} : Idle(q)
        /\ NoKill /\ unlinked = {}
        /\ Len(spanIno[fd[p]]) = 2
        /\ spanIno[fd[p]][1].kind = "ok" /\ spanIno[fd[p]][1].span.rid = 2
        /\ spanIno[fd[p]][2].kind = "ok" /\ spanIno[fd[p]][2].span.rid = 1

\* C6: when the exporter answers FAILURE (or has no export_otlp_json),
\* flush_generation returns False and has not removed the store.
C6_FailedUploadKeepsStore ==
    \A o \in OpIds :
        exportRes[o] = "FAILURE" => result[o].st = "False" /\ o \notin unlinked

C6_Witness ==
    \E o \in OpIds :
        /\ exportRes[o] = "FAILURE" /\ result[o].st = "False"
        /\ StoreRids("g1") # {} /\ Quiescent /\ nOps = 2

C6_WitnessNoJson == C6_Witness /\ ~exporterJson

\* C7: when the exporter answers SUCCESS, flush_generation returns True and
\* has removed the store file, unless debug is set: then it left the store
\* alone.
C7_SuccessfulUploadDeletesStore ==
    \A o \in OpIds :
        (exportRes[o] = "SUCCESS" /\ result[o].st # "none")
            => /\ result[o].st = "True"
               /\ (o \in unlinked) = ~debug

\* The spans of the well-formed lines, in file order.
RECURSIVE WellFormedSpans(_)
WellFormedSpans(lines) ==
    IF lines = <<>> THEN <<>>
    ELSE (IF Head(lines).kind = "ok"
          THEN <<PopResource(Head(lines).span)>> ELSE <<>>)
            \o WellFormedSpans(Tail(lines))

\* C8: a flush that reads a store with N well-formed lines and one
\* malformed line goes on with exactly the N well-formed records.
C8_MalformedLineSkipped ==
    [][\A p \in Procs :
        (/\ Flushing(p, "f_read") /\ pc'[p] # pc[p]
         /\ Cardinality({k \in 1..Len(spanIno[fd[p]]) :
                            spanIno[fd[p]][k].kind # "ok"}) = 1
         /\ spanPath[arg[p].gen] # 0)
        => /\ op'[p] = "flush_generation"
           /\ loc'[p].spans_data = WellFormedSpans(spanIno[fd[p]])]_vars

(***************************************************************************)
(* Properties of the context store (SpecCtx).                              *)
(***************************************************************************)
IsSave(o) == calls[o].f = "save_span_context"
SaveOf(context, o) == ApplySave(context, calls[o].ev, calls[o].tid, calls[o].sid)
ContextOf(g) == IF ctxPath[g] = 0 THEN Truncated ELSE ctxIno[ctxPath[g]]

\* C4: when two processes call save_span_context concurrently for the same
\* generation, the context record they leave is the result of applying the
\* two saves one after the other in some order.
C4_ConcurrentSavesSerialize ==
    (Quiescent /\ nOps = 2 /\ IsSave(1) /\ IsSave(2)) =>
        ContextOf("g1") \in {SaveOf(SaveOf(EmptyContext, 1), 2),
                            SaveOf(SaveOf(EmptyContext, 2), 1)}

\* C5: a get_parent_context that runs concurrently with a save_span_context
\* never reads an empty or partially written record: its json.load does
\* not fail.
C5_ReaderSeesCompleteRecord ==
    \A p \in Procs : ~(op[p] = "get_parent_context" /\ pc[p] = "g_badjson")

(***************************************************************************)
(* Properties of the hook receiver (SpecHook).                             *)
(***************************************************************************)
UploadedSpans == UNION {{u.spans[k] : k \in 1..Len(u.spans)} : u \in uploads}

\* C9: a span that carries a generation id g is never handed to the
\* uploader before a stop event for g has been received: ending a span
\* only appends it to g's store, and force_flush uploads nothing.
C9_NoUploadBeforeStop ==
    \A s \in UploadedSpans : s.gen # "unknown" => s.gen \in stopSeen

\* A span of generation g1 that an earlier invocation stored has been
\* handed to the uploader by the flush of a stop event, and the stop
\* invocation has called force_flush.
C9_Witness ==
    /\ \E s \in UploadedSpans : s.gen = "g1" /\ s.ev = "sessionStart"
    /\ \E p \in Procs : InHook(p, "h_exit") /\ arg[p].ev = "stop"

\* C10: once the invocation that processes the stop event of a generation
\* has completed, no context file exists for that generation.  Stated for
\* a stop invocation that is the last one started and runs alone.
C10_ContextDeletedAfterStop ==
    \A p \in Procs :
        (/\ op[p] = "process_hook" /\ pc[p] \in {"h_done", "h_exit"}
         /\ arg[p].ev = "stop" /\ arg[p].gen # "unknown"
         /\ arg[p].id = nOps
         /\ \A q \in Procs \ {p} : Idle(q))
        => ctxPath[arg[p].gen] = 0

(***************************************************************************)
(* Properties of one hook chain (SpecSeq).                                 *)
(***************************************************************************)
\* Invocation o is a call of f for hook event ev.
IsCall(o, f, ev) == o <= Len(calls) /\ calls[o].f = f /\ calls[o].ev = ev
SavedAs(o, ev) == IsCall(o, "save_span_context", ev)
AskedFor(o, ev) == IsCall(o, "get_parent_context", ev) /\ result[o].st # "none"
\* The pointer that save number o stored.
SavedPtr(o) == Ptr(calls[o].tid, calls[o].sid)

\* C11: along the save sequence sessionStart, subagentStart, tool start,
\* tool completion of one generation, get_parent_context answers the
\* session span for subagentStart after the first save, the subagent span
\* for a tool start after the second, the tool span for postToolUse after
\* the third, and the subagent span for postToolUse after the fourth.
C11_HierarchyAlongChain ==
    /\ (SavedAs(1, "sessionStart") /\ AskedFor(2, "subagentStart"))
          => result[2].ptr = SavedPtr(1)
    /\ (SavedAs(1, "sessionStart") /\ SavedAs(2, "subagentStart")
          /\ AskedFor(3, "preToolUse"))
          => result[3].ptr = SavedPtr(2)
    /\ (SavedAs(1, "sessionStart") /\ SavedAs(2, "subagentStart")
          /\ SavedAs(3, "preToolUse") /\ AskedFor(4, "postToolUse"))
          => result[4].ptr = SavedPtr(3)
    /\ (SavedAs(1, "sessionStart") /\ SavedAs(2, "subagentStart")
          /\ SavedAs(3, "preToolUse") /\ SavedAs(4, "postToolUse")
          /\ AskedFor(5, "postToolUse"))
          => result[5].ptr = SavedPtr(2)

C11_Witness ==
    /\ SavedAs(1, "sessionStart") /\ SavedAs(2, "subagentStart")
    /\ SavedAs(3, "preToolUse") /\ SavedAs(4, "postToolUse")
    /\ AskedFor(5, "postToolUse")
    /\ result[5] = ResPtr(Ptr(generate_session_trace_id("c1"), 2))

(***************************************************************************)
(* Properties of the invocations on a stored record (SpecRec).             *)
(***************************************************************************)
\* The last invocation has returned and no other is running, so the
\* context file is as that invocation met or left it.
LastOp == Len(calls)
LastAsked(ev) == Quiescent /\ LastOp > 0 /\ AskedFor(LastOp, ev)

\* C12: for the root event kind sessionStart get_parent_context answers no
\* parent, whatever pointers the record of the generation holds.
C12_RootEventHasNoParent ==
    \A o \in 1..Len(calls) :
        AskedFor(o, "sessionStart") => result[o] = Res("None")

C12_Witness ==
    /\ LastAsked("sessionStart")
    /\ ContextOf("g1").current_session_span # NoPtr
    /\ ContextOf("g1").current_subagent_span # NoPtr
    /\ ContextOf("g1").current_tool_span # NoPtr
    /\ result[LastOp] = Res("None")

\* C13: for a subagentStart event get_parent_context answers the session
\* pointer of the record when it is set and no parent otherwise, also when
\* the record holds a subagent pointer and no session pointer.
C13_SubagentStartParentIsSession ==
    LastAsked("subagentStart")
        => result[LastOp] = ResPtr(ContextOf("g1").current_session_span)

\* The pointers of the record the last invocation met; a file that is
\* missing or of zero bytes holds none.
SessionPtr == ContextOf("g1").current_session_span
SubagentPtr == ContextOf("g1").current_subagent_span
ToolPtr == ContextOf("g1").current_tool_span

\* C14: for a tool completion event get_parent_context answers the tool
\* pointer when it is set, else the subagent pointer when it is set, else
\* the session pointer, else no parent.
C14_ToolCompletionParent ==
    \A ev \in ToolDoneEvents :
        LastAsked(ev)
            => result[LastOp] =
                 ResPtr(IF ToolPtr # NoPtr THEN ToolPtr
                        ELSE IF SubagentPtr # NoPtr THEN SubagentPtr
                        ELSE SessionPtr)

C14_Witness ==
    /\ LastAsked("afterShellExecution")
    /\ ToolPtr = NoPtr /\ SubagentPtr = NoPtr /\ SessionPtr = StoredSession
    /\ result[LastOp] = ResPtr(StoredSession)

\* C15: for a tool start event and for every event that is neither root,
\* tool completion nor subagentStart, get_parent_context answers the
\* subagent pointer when it is set, else the session pointer, else no
\* parent; the tool pointer is never the answer.
C15_ToolStartAndOtherParent ==
    \A ev \in HookEventNames \ (RootEvents \cup ToolDoneEvents \cup {"subagentStart"}) :
        LastAsked(ev)
            => result[LastOp] =
                 ResPtr(IF SubagentPtr # NoPtr THEN SubagentPtr ELSE SessionPtr)

C15_Witness ==
    /\ LastAsked("beforeReadFile")
    /\ ToolPtr = StoredTool /\ SubagentPtr = NoPtr /\ SessionPtr = StoredSession
    /\ result[LastOp] = ResPtr(StoredSession)

(***************************************************************************)
(* Properties of the reads of the context store (SpecCtx).                 *)
(***************************************************************************)
\* Process p is in a read of the context record and the file it is about
\* to use is missing (never written, or removed since exists()), holds zero
\* bytes, or p is already in the except block that such a file leads to.
ReadMeetsBadFile(p) ==
    \/ /\ op[p] = "get_parent_context"
       /\ \/ pc[p] \in {"g_exists", "g_open"} /\ ctxPath[arg[p].gen] = 0
          \/ pc[p] = "g_read" /\ ctxIno[fd[p]].trunc
          \/ pc[p] \in {"g_nofile", "g_badjson"}
    \/ /\ op[p] = "get_session_trace_id"
       /\ \/ pc[p] \in {"t_exists", "t_open"} /\ ctxPath[arg[p].gen] = 0
          \/ pc[p] = "t_read" /\ ctxIno[fd[p]].trunc

\* C16: a read of the context record that finds the file missing, removed
\* between the existence check and the open, or unreadable does not fail:
\* get_parent_context and get_session_trace_id return None, at once or
\* from the except block that catches the error.
C16_ContextReadsNeverFail ==
    [][\A p \in Procs :
          (ReadMeetsBadFile(p) /\ <<op[p], pc[p]>> # <<op'[p], pc'[p]>>)
              => \/ op'[p] = "idle" /\ result'[arg[p].id] = Res("None")
                 \/ /\ op'[p] = "get_parent_context"
                    /\ pc'[p] \in {"g_nofile", "g_badjson"}]_vars

C16_Witness ==
    \E p \in Procs :
        /\ op[p] = "get_parent_context" /\ pc[p] = "g_nofile"
        /\ \E o \in 1..Len(calls) : calls[o].f = "cleanup_context"

(***************************************************************************)
(* Properties of the saves on a stored record (SpecRec).                   *)
(***************************************************************************)
\* The last invocation was a save for event ev and has returned.
LastSaved(ev) ==
    Quiescent /\ LastOp > 0 /\ SavedAs(LastOp, ev) /\ result[LastOp].st # "none"
\* Invocation o asked for the trace id of the generation and has returned.
AskedTraceId(o) ==
    /\ o <= Len(calls) /\ calls[o].f = "get_session_trace_id"
    /\ result[o].st # "none"

\* C17: a save for sessionStart leaves a record whose session pointer is
\* the saved span, whose subagent and tool pointers are unset and whose
\* session_trace_id is the saved trace id; a get_session_trace_id that
\* follows returns that trace id.
C17_SessionStartSave ==
    /\ LastSaved("sessionStart")
          => ContextOf("g1") =
               [current_session_span |-> SavedPtr(LastOp),
                current_subagent_span |-> NoPtr,
                current_tool_span |-> NoPtr,
                session_trace_id |-> calls[LastOp].tid,
                trunc |-> FALSE]
    /\ \A o \in 2..Len(calls) :
          (SavedAs(o - 1, "sessionStart") /\ AskedTraceId(o))
              => /\ result[o].st = "trace_id"
                 /\ result[o].tid = calls[o - 1].tid

C17_Witness ==
    /\ SavedAs(1, "sessionStart") /\ AskedTraceId(2)
    /\ result[2].tid = generate_session_trace_id("c1")
    /\ ContextOf("g1").current_session_span = SavedPtr(1)

\* C18: a save for sessionEnd removes everything the record of the
\* generation held: a read that follows it, before any other save, finds no
\* parent for any event and no trace id.
C18_SessionEndClearsRecord ==
    /\ LastSaved("sessionEnd")
          => /\ SessionPtr = NoPtr /\ SubagentPtr = NoPtr /\ ToolPtr = NoPtr
             /\ ContextOf("g1").session_trace_id = 0
    /\ \A o \in 2..Len(calls) :
          SavedAs(o - 1, "sessionEnd")
              => /\ \A ev \in HookEventNames :
                       AskedFor(o, ev) => result[o] = Res("None")
                 /\ AskedTraceId(o) => result[o] = Res("None")

\* A context file was stored, sessionEnd was saved on it and the lookup for
\* a tool completion found no parent.
C18_Witness ==
    /\ SavedAs(1, "sessionEnd") /\ AskedFor(2, "postToolUse")
    /\ nextIno = 1 /\ ctxPath["g1"] = 1
    /\ result[2] = Res("None")

\* The record save_span_context starts from: the one in the file, or {}
\* when the file is missing or json.load fails on it.
RecordBefore(g) ==
    IF ctxPath[g] = 0 \/ ctxIno[ctxPath[g]].trunc THEN EmptyContext
    ELSE ctxIno[ctxPath[g]]
\* The step in which a save for one of the events evs updates the record
\* it has read, and the step in which it dumps the record and returns.
Updating(p, evs) ==
    /\ op[p] = "save_span_context" /\ arg[p].ev \in evs
    /\ pc[p] = "s_openw" /\ pc'[p] = "s_lockw"
Dumping(p, evs) ==
    /\ op[p] = "save_span_context" /\ arg[p].ev \in evs
    /\ pc[p] = "s_dump" /\ op'[p] = "idle"
\* The record the file of generation g holds after the step is context.
Dumped(g, context) == ctxPath'[g] # 0 /\ ctxIno'[ctxPath'[g]] = context

\* C19: a save for subagentStart sets the subagent pointer to the saved
\* span and clears the tool pointer, a save for subagentStop clears both;
\* the session pointer and session_trace_id stay as the file held them, and
\* the updated record is what the save writes.
C19_SubagentSaveFrame ==
    [][\A p \in Procs :
          LET before == RecordBefore(arg[p].gen)
              after == loc'[p].context
          IN  /\ Updating(p, {"subagentStart"})
                    => after = [before EXCEPT
                                  !.current_subagent_span =
                                      Ptr(arg[p].tid, arg[p].sid),
                                  !.current_tool_span = NoPtr]
              /\ Updating(p, {"subagentStop"})
                    => after = [before EXCEPT
                                  !.current_subagent_span = NoPtr,
                                  !.current_tool_span = NoPtr]
              /\ Dumping(p, {"subagentStart", "subagentStop"})
                    => Dumped(arg[p].gen, loc[p].context)]_vars

\* A subagentStop was saved on a stored record with all three pointers.
C19_Witness ==
    /\ LastSaved("subagentStop")
    /\ ContextOf("g1") =
         [current_session_span |-> StoredSession,
          current_subagent_span |-> NoPtr,
          current_tool_span |-> NoPtr,
          session_trace_id |-> StoredSession.trace_id,
          trunc |-> FALSE]

\* C20: a save for a tool start sets the tool pointer to the saved span, a
\* save for a tool completion clears it; the session pointer, the subagent
\* pointer and session_trace_id stay as the file held them, and the updated
\* record is what the save writes.
C20_ToolSaveFrame ==
    [][\A p \in Procs :
          LET before == RecordBefore(arg[p].gen)
              after == loc'[p].context
          IN  /\ Updating(p, ToolStartEvents)
                    => after = [before EXCEPT
                                  !.current_tool_span =
                                      Ptr(arg[p].tid, arg[p].sid)]
              /\ Updating(p, ToolDoneEvents)
                    => after = [before EXCEPT !.current_tool_span = NoPtr]
              /\ Dumping(p, ToolStartEvents \cup ToolDoneEvents)
                    => Dumped(arg[p].gen, loc[p].context)]_vars

\* A tool completion was saved on a stored record with all three pointers.
C20_Witness ==
    /\ LastSaved("afterMCPExecution")
    /\ ContextOf("g1") =
         [current_session_span |-> StoredSession,
          current_subagent_span |-> StoredSubagent,
          current_tool_span |-> NoPtr,
          session_trace_id |-> StoredSession.trace_id,
          trunc |-> FALSE]

\* C21: a save for an event outside the session, subagent and tool kinds
\* leaves the session, subagent and tool pointers and session_trace_id as
\* the file held them, and the record it writes is that record.
C21_OtherSaveChangesNothing ==
    [][\A p \in Procs :
          /\ Updating(p, OtherEvents)
                => loc'[p].context = RecordBefore(arg[p].gen)
          /\ Dumping(p, OtherEvents)
                => Dumped(arg[p].gen, loc[p].context)]_vars

\* A stop was saved on a stored record with all three pointers.
C21_Witness ==
    /\ LastSaved("stop")
    /\ ContextOf("g1") =
         [current_session_span |-> StoredSession,
          current_subagent_span |-> StoredSubagent,
          current_tool_span |-> StoredTool,
          session_trace_id |-> StoredSession.trace_id,
          trunc |-> FALSE]

(***************************************************************************)
(* Properties of the trace identity of spans (SpecTrace).                  *)
(***************************************************************************)
\* The spans created so far: those of running invocations (the span ids
\* are set when the span is created), those in the span stores and those
\* handed to the exporter.
RunningSpans == {SpanOf(arg[p]) : p \in {q \in Procs : arg[q].sid # 0}}
StoredSpans ==
    UNION {{spanIno[i][k].span :
              k \in {j \in 1..Len(spanIno[i]) : spanIno[i][j].kind = "ok"}} :
           i \in DOMAIN spanIno}
CreatedSpans == RunningSpans \cup StoredSpans \cup UploadedSpans
\* The conversation id of the event that created span s.
ConvOf(s) == calls[s.rid].conv
SessionStartSpans ==
    {s \in CreatedSpans : s.ev = "sessionStart" /\ ConvOf(s) # "unknown"}

\* C22: the spans of any two sessionStart events with the same known
\* conversation id carry the same trace id, the one derived from the
\* conversation id, in whatever process and generation they were created
\* and whatever context was stored; their span ids differ.
C22_SessionStartTraceIdDeterministic ==
    \A s1, s2 \in SessionStartSpans :
        ConvOf(s1) = ConvOf(s2)
            => /\ s1.tid = s2.tid
               /\ s1.tid = generate_session_trace_id(ConvOf(s1))
               /\ s1.rid # s2.rid => s1.sid # s2.sid

\* Two sessionStart events of conversation c1 in different generations,
\* the second one meeting a stored record of its generation.
C22_Witness ==
    /\ nextIno > 0 /\ ctxPath["g1"] = 1
    /\ \E s1 \in StoredSpans, s2 \in RunningSpans :
          /\ s1 \in SessionStartSpans /\ s2 \in SessionStartSpans
          /\ s1.gen = "g2" /\ s2.gen = "g1"
          /\ s1.tid = s2.tid /\ s1.sid # s2.sid

\* Process p has created the span of its event under a resolved parent and
\* has not yet saved anything.
CreatedUnderParent(p) == InHook(p, "h_finally") /\ arg[p].par # NoPtr

\* C23: a span created under a resolved parent has the span id of the
\* parent pointer as parent span id; its trace id is the session_trace_id
\* of the generation's record when there is one, else the trace id mapped
\* to the conversation when there is one, else the trace id of the parent
\* pointer.
C23_ChildSpanIdentity ==
    \A p \in Procs :
        CreatedUnderParent(p)
            => LET record == ContextOf(arg[p].gen)
                   conv == arg[p].conv
               IN  /\ arg[p].par = DetermineParent(record, arg[p].ev)
                   /\ arg[p].psid = arg[p].par.span_id
                   /\ arg[p].tid =
                        IF record.session_trace_id # 0
                        THEN record.session_trace_id
                        ELSE IF conv # "unknown" /\ convMap[conv] # 0
                        THEN convMap[conv]
                        ELSE arg[p].par.trace_id

\* The record holds a parent of another trace and no session_trace_id; the
\* span takes the trace id mapped to its conversation.
C23_Witness ==
    \E p \in Procs :
        /\ CreatedUnderParent(p)
        /\ ContextOf(arg[p].gen).session_trace_id = 0
        /\ arg[p].conv = "c1"
        /\ arg[p].tid = convMap["c1"]
        /\ arg[p].tid # arg[p].par.trace_id
        /\ arg[p].psid = arg[p].par.span_id

\* Process p has created the span of an event other than sessionStart
\* without a parent, for a conversation that is mapped to a trace id.
CreatedAsMappedRoot(p) ==
    /\ InHook(p, "h_finally") /\ arg[p].par = NoPtr
    /\ arg[p].ev # "sessionStart"
    /\ arg[p].conv # "unknown" /\ convMap[arg[p].conv] # 0

\* C24: a span created without a parent for an event other than
\* sessionStart takes the trace id its conversation is mapped to; no step,
\* in particular no stop event with its flush and cleanup, removes or
\* changes the trace id a conversation is mapped to.
C24_ConversationTraceIdReused ==
    [][/\ \A p \in Procs :
             CreatedAsMappedRoot(p)' => arg'[p].tid = convMap'[arg'[p].conv]
       /\ \A c \in Convs : convMap[c] # 0 => convMap'[c] = convMap[c]]_vars

\* After the stop event of generation g1, with its cleanup, an event of
\* generation g2 creates a root span in the trace of the conversation.
C24_Witness ==
    /\ Len(calls) = 2
    /\ calls[1].f = "process_hook" /\ calls[1].ev = "stop"
    /\ calls[1].gen = "g1" /\ calls[1].conv = "c1"
    /\ \E p \in Procs :
          /\ CreatedAsMappedRoot(p)
          /\ arg[p].gen = "g2" /\ arg[p].ev = "preToolUse" /\ arg[p].conv = "c1"
          /\ arg[p].tid = generate_session_trace_id("c1")

(***************************************************************************)
(* Properties of the generation id of an event (SpecGenId).                *)
(***************************************************************************)
\* Process p runs process_hook, or a call made by it, for an event whose
\* span on_end finds without generation id.
EndsWithoutGenerationId(p) ==
    /\ op[p] = "process_hook" \/ arg[p].top = "process_hook"
    /\ OnEndTarget(arg[p].gen) = "export"

\* C25: an event whose span ends without a generation id stays out of the
\* batching: its invocation never appends to a span store and never opens
\* a context file, no context record exists for it, and the span is
\* exported alone.
C25_NoGenerationIdBypasses ==
    /\ \A p \in Procs :
          EndsWithoutGenerationId(p) => op[p] # "store_span" /\ fd[p] = 0
    /\ \A g \in Gens : ctxPath[g] # 0 => OnEndTarget(g) = "store"
    /\ \A s \in StoredSpans : OnEndTarget(s.gen) = "store"
    /\ \A u \in uploads :
          (\E k \in 1..Len(u.spans) : OnEndTarget(u.spans[k].gen) = "export")
              => Len(u.spans) = 1

(***************************************************************************)
(* Properties of failing file operations (SpecFail).                       *)
(***************************************************************************)
\* C26: every invocation of process_hook returns the response of its
\* event, whether the flush of a stop event succeeds or fails and whether
\* the append of the span and the save of the context succeed or fail.
C26_ResponseAlwaysReturned ==
    \A o \in OpIds : (Len(calls) >= o) ~> (result[o] = Res("response"))

\* A stop event whose flush got a failure from the exporter, whose span
\* was not appended and after which no context file exists has returned
\* its response.
C26_Witness ==
    /\ Quiescent /\ Len(calls) = 2
    /\ calls[2].ev = "stop"
    /\ exportRes[2] = "FAILURE"
    /\ 2 \notin appended
    /\ ctxPath["g1"] = 0
    /\ result[2] = Res("response")

(***************************************************************************)
(* Properties of the flush of a missing or empty store (SpecStore).        *)
(***************************************************************************)
\* Process p is at the step of flush_generation that ends the flush of a
\* store that is missing (exists() is false) or holds no record (no line
\* was read).
FlushesNothing(p) ==
    \/ Flushing(p, "f_exists") /\ spanPath[arg[p].gen] = 0
    \/ Flushing(p, "f_unlink_empty")

\* C27: the flush of a generation whose store is missing or holds no
\* record returns True and hands nothing to the exporter; a flush that
\* follows it finds no store and does the same.
C27_EmptyFlushIsNoOp ==
    [][\A p \in Procs :
          (FlushesNothing(p) /\ pc'[p] # pc[p]) =>
              /\ result'[arg[p].id] = Res("True")
              /\ uploads' = uploads
              /\ exportRes' = exportRes]_vars

(***************************************************************************)
(* Properties of the batch of a flush (SpecPayload).                       *)
(***************************************************************************)
\* The attribute list of the resource of batch u, and the positions of key
\* k in it.
ResourceAttributes(u) == u.payload.resourceSpans[1].resource.attributes
PositionsOf(k, attributes) ==
    {i \in 1..Len(attributes) : attributes[i].key = k}

\* The lines of generation g1's store file hold a "_resource" that gives
\* key k the value v.
StoredFragmentHas(k, v) ==
    \E j \in 1..Len(spanIno[1]) :
        /\ spanIno[1][j].span.resource.in
        /\ \E i \in 1..Len(spanIno[1][j].span.resource.attrs) :
               spanIno[1][j].span.resource.attrs[i] = Item(k, v)

\* C28: the resource of the batch that a flush hands to the exporter has
\* the attribute service.name exactly once, and its value is the
\* service_name argument of the flush, whatever service.name the stored
\* fragments carry.
C28_ServiceNameOnceFromArgument ==
    [][\A p \in Procs :
          Flushing(p, "f_export") =>
              \A u \in uploads' \ uploads :
                  /\ Cardinality(PositionsOf("service.name",
                                             ResourceAttributes(u))) = 1
                  /\ \A i \in PositionsOf("service.name", ResourceAttributes(u)) :
                         ResourceAttributes(u)[i].value =
                             [stringValue |-> arg[p].service_name]]_vars

\* A flush with service_name "other" has handed over a batch of two spans
\* whose stored fragments both said service.name "cursor-agent"; the
\* batch says "other".
C28_Witness ==
    /\ Len(spanIno[1]) = 2
    /\ \A j \in 1..2 :
           spanIno[1][j].span.resource =
               Fragment(<<Item("service.name", "cursor-agent")>>)
    /\ \E u \in uploads :
           /\ Len(u.spans) = 2
           /\ ResourceAttributes(u) =
                  <<[key |-> "service.name", value |-> [stringValue |-> "other"]]>>

\* The lines that flush p read: those of the inode it opened.
LinesRead(p) == spanIno[loc[p].ino]

\* The lines whose "_resource" has key k, and the value that the latest of
\* them gives it.
LinesWith(k, lines) ==
    {j \in 1..Len(lines) :
        lines[j].span.resource.in /\ k \in Keys(lines[j].span.resource.attrs)}

ValueIn(k, d) == d[CHOOSE i \in 1..Len(d) : d[i].key = k].value

LatestValue(k, lines) ==
    LET j == CHOOSE x \in LinesWith(k, lines) :
                 \A y \in LinesWith(k, lines) : y <= x
    IN  ValueIn(k, lines[j].span.resource.attrs)

\* Batch u is one resource block with one scope that holds the spans of
\* the lines, all of them.
OneBlockOfAll(u, lines) ==
    /\ Len(u.payload.resourceSpans) = 1
    /\ Len(u.payload.resourceSpans[1].scopeSpans) = 1
    /\ LET spans == u.payload.resourceSpans[1].scopeSpans[1].spans IN
       /\ Len(spans) = Len(lines)
       /\ \A j \in 1..Len(lines) : spans[j].rid = lines[j].span.rid

\* The resource of batch u gives key k, once, the value of the latest
\* line that has k.
LastWriteWins(u, k, lines) ==
    /\ Cardinality(PositionsOf(k, ResourceAttributes(u))) = 1
    /\ \A i \in PositionsOf(k, ResourceAttributes(u)) :
           ResourceAttributes(u)[i].value =
               [stringValue |-> LatestValue(k, lines)]

\* C29, as stated: the batch of a flush is one resource block with one
\* scope holding every record read, and each resource key that stored
\* fragments carry has in the batch the value of the latest record that
\* carries it.
C29_OneBlockLastWriteWins ==
    [][\A p \in Procs :
          Flushing(p, "f_export") =>
              \A u \in uploads' \ uploads :
                  /\ OneBlockOfAll(u, LinesRead(p))
                  /\ \A k \in ResourceKeys :
                         LinesWith(k, LinesRead(p)) # {}
                             => LastWriteWins(u, k, LinesRead(p))]_vars

\* C29, amended: the same for each resource key other than service.name,
\* whose value in the batch is the service_name argument of the flush.
C29_OneBlockLastWriteWinsButServiceName ==
    [][\A p \in Procs :
          Flushing(p, "f_export") =>
              \A u \in uploads' \ uploads :
                  /\ OneBlockOfAll(u, LinesRead(p))
                  /\ \A k \in ResourceKeys \ {"service.name"} :
                         LinesWith(k, LinesRead(p)) # {}
                             => LastWriteWins(u, k, LinesRead(p))]_vars

\* A store of three records whose fragments give host.name the values
\* "other", "other" and "cursor-agent" was handed over as one batch of
\* three spans with host.name "cursor-agent".
C29_Witness ==
    /\ Len(spanIno[1]) = 3
    /\ \A j \in 1..3 :
           spanIno[1][j].span.resource =
               Fragment(<<Item("host.name",
                               IF j = 3 THEN "cursor-agent" ELSE "other")>>)
    /\ \E u \in uploads :
           /\ OneBlockOfAll(u, spanIno[1])
           /\ ResourceAttributes(u) =
                  <<[key |-> "service.name", value |-> [stringValue |-> "other"]],
                    [key |-> "host.name",
                     value |-> [stringValue |-> "cursor-agent"]]>>

(***************************************************************************)
(* Properties of the id rendering (SpecHex).                               *)
(***************************************************************************)
\* text has exactly width characters, each a lower-case hex digit.
FixedWidthLowerHex(text, width) ==
    /\ Len(text) = width
    /\ \A i \in 1..Len(text) :
           text[i] \in {"0", "1", "2", "3", "4", "5", "6", "7",
                        "8", "9", "a", "b", "c", "d", "e", "f"}

\* Process p has rendered the ids of its span.
Rendered(p) == op[p] = "span_to_dict" /\ pc[p] = "d_return"

SweepEnds(p) ==
    /\ op[p] \in {"cleanup_old_files", "cleanup_old_contexts"}
    /\ pc[p] # "w_glob"
    /\ op'[p] = "idle"

\* The inodes that the sweep of p listed and that are older than hours.
ListedOlderThan(p, hours) ==
    {loc[p].seen[g] :
        g \in {h \in Gens : /\ loc[p].seen[h] # 0
                            /\ FileAge(loc[p].seen[h]) > hours * 3600}}

\* C31: a sweep with threshold T removes exactly the files of its
\* directory that are older than T: when it ends, none of the listed files
\* whose age exceeds T hours is left, and the files it unlinked are among
\* them, so every younger file is kept.
C31_SweepRemovesExactlyOld ==
    [][\A p \in Procs :
          SweepEnds(p) =>
              /\ \A g \in Gens :
                     loc[p].seen[g] \in ListedOlderThan(p, max_age_hours)
                         => SweptPath(p)[g] # loc[p].seen[g]
              /\ loc[p].removed \subseteq ListedOlderThan(p, max_age_hours)]_vars

\* The sweep that shutdown() runs has visited every listed file and ends.
ShutdownSweepCompletes(p) ==
    /\ op[p] = "cleanup_old_files" /\ pc[p] = "w_next"
    /\ loc[p].todo = {}
    /\ op'[p] = "idle"

\* The context file of generation g is there and older than hours.
ExpiredContext(g, hours) ==
    ctxPath[g] # 0 /\ FileAge(ctxPath[g]) > hours * 3600

\* C34: when the sweep of a shutdown has run to its end, an abandoned
\* generation whose store file was expired has neither that store file nor
\* an expired context file left.
C34_SweeperCleansBothDirectories ==
    [][\A p \in Procs :
          ShutdownSweepCompletes(p) =>
              \A g \in Gens :
                  loc[p].seen[g] \in ListedOlderThan(p, max_age_hours)
                      => /\ spanPath[g] # loc[p].seen[g]
                         /\ ~ExpiredContext(g, max_age_hours)]_vars


(***************************************************************************)
(* Properties of the order of the steps of one invocation (SpecTrace).     *)
(***************************************************************************)
\* Process p is inside the invocation of process_hook, in process_hook
\* itself or in a call it made.
InInvocation(p) == op[p] = "process_hook" \/ arg[p].top = "process_hook"

\* The invocation of p is a stop event with a generation id.
IsTerminalEvent(p) == arg[p].ev = "stop" /\ arg[p].gen # "unknown"

\* The step makes p enter, or leave, function f.
Enters(p, f) == op[p] # f /\ op'[p] = f
Leaves(p, f) == op[p] = f /\ op'[p] # f

\* The span of the invocation of p is in the store of its generation.
OwnSpanStored(p) == arg[p].id \in StoreRids(arg[p].gen)

\* C32: processing a stop event for generation g invokes the flush of g
\* exactly once (the first step of the invocation of a stop event enters
\* flush_generation for g, and no other step of an invocation enters it),
\* synchronously (process_hook goes on only when the flush has returned) and
\* before the stop span's own record is appended to the store (the record
\* is not in the store while the flush runs), so that the batch the flush
\* hands to the uploader never contains that stop event's span.
C32_StopFlushesOnceBeforeOwnSpan ==
    [][\A p \in Procs :
        /\ (InHook(p, "h_start") /\ IsTerminalEvent(p) /\ pc'[p] # pc[p])
              => /\ op'[p] = "flush_generation"
                 /\ arg'[p].gen = arg[p].gen
        /\ (InInvocation(p) /\ Enters(p, "flush_generation"))
              => InHook(p, "h_start") /\ IsTerminalEvent(p)
        /\ (op'[p] = "process_hook" /\ pc'[p] = "h_start") => Idle(p) \/ InHook(p, "h_start")
        /\ (InInvocation(p) /\ Leaves(p, "flush_generation"))
              => /\ InHook(p, "h_cleanup")'
                 /\ arg'[p].ret.st \in {"True", "False"}
        /\ (InInvocation(p) /\ op[p] = "flush_generation")
              => /\ ~OwnSpanStored(p)
                 /\ \A u \in uploads' \ uploads :
                       u.op = arg[p].id => arg[p].id \notin Rids(u.spans)
        /\ (InInvocation(p) /\ op[p] # "flush_generation")
              => \A u \in uploads' \ uploads :
                    u.op = arg[p].id => InHook(p, "h_end")
      ]_vars

\* A stop event whose flush handed a batch to the uploader and whose own
\* span was stored afterwards.
C32_Witness ==
    \E u \in uploads :
        /\ calls[u.op].f = "process_hook" /\ calls[u.op].ev = "stop"
        /\ u.spans # <<>>
        /\ u.op \in appended
        /\ u.op \in StoreRids(u.gen)


\* C33: within one invocation the steps run in the order: resolve parent
\* and trace id from the context store (the parent lookup is entered from
\* the first position of process_hook, before any flush or cleanup), then,
\* for a terminal event, flush the prior batch (the flush is over when the
\* span's record is appended), then append this span's record, then update
\* the context pointers (save_span_context is entered with the record in
\* the store); so the parent of a stop span is resolved from the context as
\* it stood before the flush and the cleanup.
C33_ResolveFlushAppendUpdate ==
    [][\A p \in Procs :
        /\ (InInvocation(p) /\ Enters(p, "get_parent_context"))
              => InHook(p, "h_start")
        /\ (InInvocation(p) /\ Enters(p, "store_span"))
              => op[p] # "flush_generation"
        /\ (InInvocation(p) /\ Enters(p, "save_span_context")
              /\ OnEndTarget(arg[p].gen) = "store")
              => OwnSpanStored(p)
      ]_vars


(***************************************************************************)
(* Properties of the parent of a prompt event (SpecRec).                   *)
(***************************************************************************)
\* C35: beforeSubmitPrompt is a root event like sessionStart:
\* get_parent_context answers no parent for it in every context state,
\* whatever session and subagent pointers the record holds.
C35_BeforeSubmitPromptIsRoot ==
    \A o \in 1..Len(calls) :
        AskedFor(o, "beforeSubmitPrompt") => result[o] = Res("None")


(***************************************************************************)
(* Properties of the calls of the flush (SpecFlush).                       *)
(***************************************************************************)
\* Invocation o is a call of flush_generation.
IsFlush(o) == Len(calls) >= o /\ calls[o].f = "flush_generation"

\* The batches the step hands to the exporter.
HandedOver == uploads' \ uploads

\* C36: flush_generation always terminates with a success or failure result
\* (every call returns True or False) and hands a batch to the uploader at
\* most once per call (a batch is handed over by a call at its export, with
\* the exporter's first answer to the call, and the call then leaves the
\* export for good: no retry loop), and all drained records of the
\* generation go out in that single batch (the batch is the whole of the
\* records the call read from the store file, in one piece).
C36_FlushTerminatesOneBatch ==
    /\ \A o \in OpIds :
          IsFlush(o) ~> (result[o] \in {Res("True"), Res("False")})
    /\ [][/\ Cardinality(HandedOver) <= 1
          /\ \A u \in HandedOver : \E p \in Procs :
                /\ Flushing(p, "f_export") /\ u.op = arg[p].id
                /\ exportRes[u.op] = "none"
                /\ exportRes'[u.op] \in {"SUCCESS", "FAILURE"}
                /\ u.spans = loc[p].spans_data
                /\ u.spans = ParseLines(SubSeq(spanIno[loc[p].ino], 1,
                                               Len(u.spans)))
          /\ \A p \in Procs :
                Flushing(p, "f_export")' => exportRes'[arg'[p].id] = "none"
       ]_vars

\* A flush that read two records, got a failure from the exporter for its
\* one batch and returned False.
C36_Witness ==
    \E u \in uploads :
        /\ Len(u.spans) = 2
        /\ exportRes[u.op] = "FAILURE"
        /\ result[u.op] = Res("False")
        /\ \A v \in uploads : v.op = u.op => v = u


(***************************************************************************)
(* Properties of the spans of a batch (SpecPayload).                       *)
(***************************************************************************)
\* The spans of the payload of batch u: those of its one scope.
PayloadSpans(u) == u.payload.resourceSpans[1].scopeSpans[1].spans

\* C37: the spans of a flushed batch appear in the order in which their
\* records were appended to the generation's store (the k-th span of the
\* batch is the span of the k-th line of the store file, which the k-th
\* append wrote), and none of them carries the transient per-line resource
\* fragment.
C37_BatchInAppendOrderWithoutFragment ==
    \A u \in uploads :
        /\ PayloadSpans(u) = u.spans
        /\ Len(u.spans) = Len(spanIno[1])
        /\ \A k \in 1..Len(u.spans) :
              /\ u.spans[k].rid = spanIno[1][k].span.rid
              /\ u.spans[k].rid = k
              /\ u.spans[k].sid = calls[k].sid
              /\ u.spans[k].resource = NoResource

\* A batch of three spans whose stored records all carried a fragment.
C37_Witness ==
    /\ Len(spanIno[1]) = 3
    /\ \A k \in 1..3 : spanIno[1][k].span.resource # NoResource
    /\ \E u \in uploads : Len(u.spans) = 3


(***************************************************************************)
(* Properties of what a stop event leaves in the store (SpecTrace, whose   *)
(* invocations run one after the other, without debug mode).               *)
(***************************************************************************)
\* Invocation o is a stop event that has been fully processed, with a
\* successful upload of its flush, and nothing has run since.
StopProcessed(o) ==
    /\ Quiescent /\ o = LastOp
    /\ calls[o].f = "process_hook" /\ calls[o].ev = "stop"
    /\ result[o] = Res("response")
    /\ exportRes[o] = "SUCCESS"

\* C38: after a stop event for generation g has been fully processed with a
\* successful upload (non-debug mode, no concurrent invocation), g's store
\* holds no record that was never handed to the uploader: every span
\* appended for g, including the stop span itself, has been exported.
C38_NothingLeftAfterStop ==
    \A o \in 1..Len(calls) :
        StopProcessed(o)
            => /\ StoreRids(calls[o].gen) \subseteq UploadedRids
               /\ o \in UploadedRids


(***************************************************************************)
(* Properties of the batches of concurrent flushes (SpecFlush).            *)
(***************************************************************************)
\* The batches for which the exporter answered SUCCESS.
Exported == {u \in uploads : exportRes[u.op] = "SUCCESS"}

\* C39: over any sequence and interleaving of appends and flushes for one
\* generation, no stored record is contained in more than one batch for
\* which the uploader reported success (no duplicate export), also when two
\* flushes of the same generation run concurrently.
C39_NoDuplicateExport ==
    \A u \in Exported : \A v \in Exported :
        u # v => Rids(u.spans) \cap Rids(v.spans) = {}


(***************************************************************************)
(* Properties of the parent links of the spans (SpecTrace).                *)
(***************************************************************************)
\* C40: parent/child links are consistent: every span created with a
\* resolved parent, in any sequence of events over generations and
\* conversations, has the trace id of the span its parent span id refers
\* to, which is the trace id stored with the parent pointer.
C40_ChildInTraceOfParent ==
    \A p \in Procs :
        CreatedUnderParent(p)
            => /\ arg[p].psid = arg[p].par.span_id
               /\ arg[p].tid = arg[p].par.trace_id

=============================================================================
